---------------------------- MODULE Spec2Model ----------------------------
(***************************************************************************)
(* ImageHub: the completeness verifier (ImageProcessingValidator), its     *)
(* naming patterns, and the differential labeler (DiffLabeler) as state    *)
(* machines.  Each subsystem has its own variables and its own             *)
(* specification; a specification leaves the other subsystems' variables   *)
(* at their idle values.                                                   *)
(*                                                                         *)
(* File names are sequences of one-character strings, so that the regular  *)
(* expressions of NamingPattern are modelled by what they do on the text.  *)
(***************************************************************************)
EXTENDS Integers, Sequences, FiniteSets, TLC

VARIABLES
    \* ---- NamingPattern (image_verifier_core.py, class NamingPattern)
    np_args,          \* arguments of the factory call
    np_pattern,       \* the compiled pattern, NoPattern before compilation
    np_filename,      \* the file name handed to pattern.match
    np_match,         \* the match object (NoMatch when None), NotCalled before
    np_pc,
    \* ---- ImageVerifier and its caller (image_verifier_core.py, _adapter.py)
    v_args,           \* who calls (entry), suffix policy, max_workers
    source_folder,    \* os.listdir(source_folder): the file names, in listing order
    target_folder,    \* os.listdir(target_folder)
    missing_folder,   \* the files copied into the missing folder
    naming_pattern,   \* the compiled pattern of the run
    expected_suffixes,
    source_images,    \* list of <<base_name, filename>>
    processed_images, \* dict base_name -> list of suffixes
    naming_errors,
    missing_images,
    incomplete_images, \* list of <<filename, missing suffixes>>
    total_files,
    processed_files,
    progress_percent,
    progress_call,    \* the arguments of the last progress callback call
    v_lock,           \* index of the future holding self._lock, 0 when free
    all_files,        \* listed, not yet submitted to the executor
    futures,          \* the submitted tasks: [arg, st, need_to_copy]
    missing_queue,
    copy_tasks,
    v_phase,          \* position of the calling thread: phase and step
    v_step,
    \* ---- DiffLabelerModel batch runs (diff_labeler_model.py)
    b_args,           \* mode, max_workers, what progress_callback does
    sample_dir,       \* os.listdir(self.sample_dir), in listing order
    bg_dir,           \* os.listdir(self.bg_dir)
    b_tasks,          \* the futures of the executor, in submission order
    processed_count,  \* total_processed in sequence mode
    failed_count,     \* total_failed in sequence mode
    error_list,       \* total_errors in sequence mode
    completed,        \* sequences_processed in sequence mode
    b_progress,       \* the arguments progress_callback was called with
    b_pc,             \* position of the calling thread
    processed_lock,   \* the task that holds processed_lock, 0 when it is free
    output_files,     \* the annotation files of output_dir: name -> the sample written
    b_decoded,        \* the samples whose background and sample images decoded
    b_result,         \* the returned tuple, without elapsed_time
    \* ---- BoundingBox and create_merged_box (diff_labeler_model.py)
    bx_img,           \* <<img_width, img_height>>
    bx_rects,         \* the two pixel rectangles (x, y, w, h) of the contours
    bx_boxes,         \* the two BoundingBox objects made from them
    bx_iou,           \* what boxes[1].iou(boxes[2]) gave
    bx_merged,        \* what create_merged_box(boxes, ...) gave
    \* ---- one DiffLabelerModel object and its calls (diff_labeler_model.py)
    dl_attrs,         \* what getattr(self, name) gives, methods included
    dl_before,        \* dl_attrs when the last call started
    dl_call,          \* the last call: its name and arguments
    dl_out,           \* what the last call returned
    dl_pc,
    \* ---- the directories the calls are configured with
    fs_dirs           \* per directory: "absent", "present", or "created" by the call

varsNaming == <<np_args, np_pattern, np_filename, np_match, np_pc>>

varsVerifier ==
    <<v_args, source_folder, target_folder, missing_folder, naming_pattern,
      expected_suffixes, source_images, processed_images, naming_errors,
      missing_images, incomplete_images, total_files, processed_files,
      progress_percent, progress_call, v_lock, all_files, futures,
      missing_queue, copy_tasks, v_phase, v_step>>

varsBatch ==
    <<b_args, sample_dir, bg_dir, b_tasks, processed_count, failed_count,
      error_list, processed_lock, completed, b_progress, b_pc, b_result,
      output_files, b_decoded>>

varsBox == <<bx_img, bx_rects, bx_boxes, bx_iou, bx_merged>>

varsModel == <<dl_attrs, dl_before, dl_call, dl_out, dl_pc>>

vars == <<varsNaming, varsVerifier, varsBatch, varsBox, varsModel, fs_dirs>>

\* What the actions of one subsystem leave alone.
othersNaming == <<varsVerifier, varsBatch, varsBox, varsModel, fs_dirs>>
othersVerifier == <<varsNaming, varsBatch, varsBox, varsModel, fs_dirs>>
othersBatch == <<varsNaming, varsVerifier, varsBox, varsModel, fs_dirs>>
othersBox == <<varsNaming, varsVerifier, varsBatch, varsModel, fs_dirs>>
othersModel == <<varsNaming, varsVerifier, varsBatch, varsBox, fs_dirs>>

\* Every configured directory exists.
AllDirsPresent ==
    [d \in {"source_folder", "target_folder", "missing_folder", "bg_dir", "sample_dir",
            "output_dir"} |-> "present"]

\* os.path.exists(d)
Exists(d) == fs_dirs[d] # "absent"

\* if not os.path.exists(d): os.makedirs(d)
Makedirs(d) == IF Exists(d) THEN fs_dirs ELSE [fs_dirs EXCEPT ![d] = "created"]

-----------------------------------------------------------------------------
(* Text helpers *)

\* The characters that file names of the model are made of.
Digits == {"0", "1", "2", "3", "4", "5", "6", "7", "8", "9"}

DigitChar(d) ==
    CASE d = 0 -> "0" [] d = 1 -> "1" [] d = 2 -> "2" [] d = 3 -> "3" [] d = 4 -> "4"
      [] d = 5 -> "5" [] d = 6 -> "6" [] d = 7 -> "7" [] d = 8 -> "8" [] d = 9 -> "9"

DigitValue(c) ==
    CASE c = "0" -> 0 [] c = "1" -> 1 [] c = "2" -> 2 [] c = "3" -> 3 [] c = "4" -> 4
      [] c = "5" -> 5 [] c = "6" -> 6 [] c = "7" -> 7 [] c = "8" -> 8 [] c = "9" -> 9

\* str.lower() on one character (the letters the model's file names use).
LowerChar(c) ==
    CASE c = "A" -> "a" [] c = "B" -> "b" [] c = "C" -> "c" [] c = "G" -> "g"
      [] c = "I" -> "i" [] c = "J" -> "j" [] c = "M" -> "m" [] c = "N" -> "n"
      [] c = "P" -> "p" [] c = "T" -> "t" [] c = "X" -> "x"
      [] OTHER -> c

Lower(s) == [i \in 1..Len(s) |-> LowerChar(s[i])]

\* re.IGNORECASE comparison of a literal with a piece of text.
EqIgnoreCase(s, t) == Lower(s) = Lower(t)

Slice(s, from, to) == IF from > to THEN <<>> ELSE SubSeq(s, from, to)

EndsWith(s, suffix) ==
    /\ Len(suffix) <= Len(s)
    /\ Slice(s, Len(s) - Len(suffix) + 1, Len(s)) = suffix

RECURSIVE ConcatAll(_)
ConcatAll(parts) ==
    IF parts = <<>> THEN <<>> ELSE Head(parts) \o ConcatAll(Tail(parts))

\* str(i) for an integer i >= 0: decimal, no leading zeros.
RECURSIVE IntToStr(_)
IntToStr(i) ==
    IF i < 10 THEN <<DigitChar(i)>> ELSE IntToStr(i \div 10) \o <<DigitChar(i % 10)>>

\* sep.join(items)
RECURSIVE Join(_, _)
Join(items, sep) ==
    IF items = <<>> THEN <<>>
    ELSE IF Len(items) = 1 THEN Head(items)
    ELSE Head(items) \o sep \o Join(Tail(items), sep)

\* The alternatives of a regular expression group "(a|b|c)": the text between
\* the bars.  An empty text is one empty alternative.
RECURSIVE Alternatives(_)
Alternatives(text) ==
    IF \A i \in 1..Len(text) : text[i] # "|" THEN <<text>>
    ELSE LET k == CHOOSE i \in 1..Len(text) :
                     text[i] = "|" /\ \A j \in 1..(i - 1) : text[j] # "|"
         IN <<Slice(text, 1, k - 1)>> \o Alternatives(Slice(text, k + 1, Len(text)))


-----------------------------------------------------------------------------
(* Python float: IEEE 754 binary64 with round-to-nearest-even.  A mantissa  *)
(* of 53 bits does not fit a TLC integer, so natural numbers are kept as    *)
(* little-endian sequences of limbs.  Exponent range, infinities and NaN    *)
(* play no part in the arithmetic of the program and are left out.          *)

LimbBits == 15
LimbBase == 32768
MantissaBits == 53

\* A natural number without leading zero limbs.
RECURSIVE BigNorm(_)
BigNorm(a) ==
    IF a = <<>> THEN <<>>
    ELSE IF a[Len(a)] = 0 THEN BigNorm(Slice(a, 1, Len(a) - 1)) ELSE a

\* Number of bits of a natural number.
BigBitLen(a) ==
    IF a = <<>> THEN 0
    ELSE LimbBits * (Len(a) - 1)
         + (CHOOSE k \in 1..LimbBits : 2^(k - 1) <= a[Len(a)] /\ a[Len(a)] < 2^k)

\* -1, 0, 1 as a < b, a = b, a > b.
RECURSIVE BigCmp(_, _)
BigCmp(a, b) ==
    IF Len(a) # Len(b) THEN (IF Len(a) < Len(b) THEN -1 ELSE 1)
    ELSE IF a = <<>> THEN 0
    ELSE IF a[Len(a)] # b[Len(b)] THEN (IF a[Len(a)] < b[Len(b)] THEN -1 ELSE 1)
    ELSE BigCmp(BigNorm(Slice(a, 1, Len(a) - 1)), BigNorm(Slice(b, 1, Len(b) - 1)))

\* a + b + carry
RECURSIVE BigAdd(_, _, _)
BigAdd(a, b, carry) ==
    IF a = <<>> /\ b = <<>> THEN (IF carry = 0 THEN <<>> ELSE <<carry>>)
    ELSE LET x == IF a = <<>> THEN 0 ELSE a[1]
             y == IF b = <<>> THEN 0 ELSE b[1]
             t == x + y + carry
         IN <<t % LimbBase>> \o
            BigAdd(IF a = <<>> THEN <<>> ELSE Tail(a),
                   IF b = <<>> THEN <<>> ELSE Tail(b), t \div LimbBase)

\* a - b - borrow for a >= b + borrow; leading zero limbs are left in.
RECURSIVE BigSub(_, _, _)
BigSub(a, b, borrow) ==
    IF a = <<>> THEN <<>>
    ELSE LET y == IF b = <<>> THEN 0 ELSE b[1]
             t == a[1] - y - borrow
         IN <<IF t < 0 THEN t + LimbBase ELSE t>> \o
            BigSub(Tail(a), IF b = <<>> THEN <<>> ELSE Tail(b), IF t < 0 THEN 1 ELSE 0)

\* a * k + carry for 0 <= k < LimbBase; leading zero limbs are left in.
RECURSIVE BigMulSmall(_, _, _)
BigMulSmall(a, k, carry) ==
    IF a = <<>> THEN (IF carry = 0 THEN <<>> ELSE <<carry>>)
    ELSE LET t == a[1] * k + carry
         IN <<t % LimbBase>> \o BigMulSmall(Tail(a), k, t \div LimbBase)

RECURSIVE BigMul(_, _)
BigMul(a, b) ==
    IF a = <<>> \/ b = <<>> THEN <<>>
    ELSE LET rest == BigMul(Tail(a), b)
         IN BigNorm(BigAdd(BigMulSmall(b, a[1], 0),
                           IF rest = <<>> THEN <<>> ELSE <<0>> \o rest, 0))

\* a * 2^n
BigShiftLeft(a, n) ==
    IF a = <<>> THEN <<>>
    ELSE [i \in 1..(n \div LimbBits) |-> 0] \o BigMulSmall(a, 2^(n % LimbBits), 0)

\* floor(a / 2^n)
BigShiftRight(a, n) ==
    IF n \div LimbBits >= Len(a) THEN <<>>
    ELSE LET high == Slice(a, (n \div LimbBits) + 1, Len(a))
             r == n % LimbBits
         IN BigNorm([i \in 1..Len(high) |->
                        (high[i] \div 2^r) +
                        (IF i < Len(high) THEN (high[i + 1] % 2^r) * 2^(LimbBits - r) ELSE 0)])

\* Restoring division: the `steps` leading bits of the quotient rem / d for
\* rem < 2 * d, and whether a remainder is left (the sticky bit).
RECURSIVE BigDivBits(_, _, _, _)
BigDivBits(rem, d, steps, q) ==
    IF steps = 0 THEN [q |-> q, sticky |-> rem # <<>>]
    ELSE IF Len(q) >= 0 /\ BigCmp(rem, d) >= 0
    THEN BigDivBits(BigNorm(BigMulSmall(BigNorm(BigSub(rem, d, 0)), 2, 0)), d, steps - 1,
                    BigMulSmall(q, 2, 1))
    ELSE BigDivBits(BigMulSmall(rem, 2, 0), d, steps - 1, BigMulSmall(q, 2, 0))

FZero == [sgn |-> 0, man |-> <<>>, exp |-> 0]

\* The float nearest to sgn * M * 2^e (ties to even).
FRound(sgn, M, e) ==
    IF M = <<>> \/ sgn = 0 THEN FZero
    ELSE LET L == BigBitLen(M)
         IN IF L <= MantissaBits
            THEN [sgn |-> sgn, man |-> BigShiftLeft(M, MantissaBits - L),
                  exp |-> e - (MantissaBits - L)]
            ELSE LET sh == L - MantissaBits
                     q == BigShiftRight(M, sh)
                     r == BigNorm(BigSub(M, BigShiftLeft(q, sh), 0))
                     half == BigShiftLeft(<<1>>, sh - 1)
                     c == BigCmp(r, half)
                     up == c > 0 \/ (c = 0 /\ q[1] % 2 = 1)
                     q1 == IF up THEN BigAdd(q, <<1>>, 0) ELSE q
                 IN IF BigBitLen(q1) > MantissaBits
                    THEN [sgn |-> sgn, man |-> BigShiftRight(q1, 1), exp |-> e + sh + 1]
                    ELSE [sgn |-> sgn, man |-> q1, exp |-> e + sh]

\* float(n) for an int n with |n| < LimbBase^2
FFromInt(n) ==
    LET m == IF n < 0 THEN -n ELSE n
    IN FRound(IF n < 0 THEN -1 ELSE 1, BigNorm(<<m % LimbBase, m \div LimbBase>>), 0)

\* x + y
FAdd(x, y) ==
    IF x.sgn = 0 THEN y
    ELSE IF y.sgn = 0 THEN x
    ELSE LET e0 == IF x.exp < y.exp THEN x.exp ELSE y.exp
             X == BigShiftLeft(x.man, x.exp - e0)
             Y == BigShiftLeft(y.man, y.exp - e0)
             c == BigCmp(X, Y)
         IN IF x.sgn = y.sgn THEN FRound(x.sgn, BigAdd(X, Y, 0), e0)
            ELSE IF c = 0 THEN FZero
            ELSE IF c > 0 THEN FRound(x.sgn, BigNorm(BigSub(X, Y, 0)), e0)
            ELSE FRound(y.sgn, BigNorm(BigSub(Y, X, 0)), e0)

\* x - y
FSub(x, y) == FAdd(x, [y EXCEPT !.sgn = -y.sgn])

\* x * y
FMul(x, y) ==
    IF x.sgn = 0 \/ y.sgn = 0 THEN FZero
    ELSE FRound(x.sgn * y.sgn, BigMul(x.man, y.man), x.exp + y.exp)

\* x / y for y # 0 (Python raises ZeroDivisionError for y = 0: the callers
\* decide that case before they divide).  A division by a power of two
\* changes the exponent alone.
FDiv(x, y) ==
    IF x.sgn = 0 THEN FZero
    ELSE IF y.man = BigShiftLeft(<<1>>, MantissaBits - 1)
    THEN [sgn |-> x.sgn * y.sgn, man |-> x.man, exp |-> x.exp - y.exp - (MantissaBits - 1)]
    ELSE LET d == BigDivBits(x.man, y.man, MantissaBits + 3, <<>>)
             M == BigMulSmall(d.q, 2, IF d.sticky THEN 1 ELSE 0)
         IN FRound(x.sgn * y.sgn, M, x.exp - y.exp - (MantissaBits + 3))

\* x < y; max(x, y) and min(x, y) as Python's built-ins choose
FLess(x, y) == FSub(x, y).sgn < 0
FMax(x, y) == IF FLess(x, y) THEN y ELSE x
FMin(x, y) == IF FLess(y, x) THEN y ELSE x

\* int(x): truncation toward zero, for |x| < LimbBase^2
FTrunc(x) ==
    IF x.sgn = 0 THEN 0
    ELSE LET a == IF x.exp >= 0 THEN BigShiftLeft(x.man, x.exp)
                  ELSE BigShiftRight(x.man, -x.exp)
         IN x.sgn * ((IF Len(a) >= 1 THEN a[1] ELSE 0)
                     + (IF Len(a) >= 2 THEN LimbBase * a[2] ELSE 0))

-----------------------------------------------------------------------------
(* NamingPattern: the compiled patterns and re.Pattern.match *)

NoPattern == [shape |-> "none"]
NoMatch == [matched |-> FALSE]
NotCalled == [matched |-> "not called"]

\* range(low, high + 1) as the list of its str() forms.
RangeStrings(low, high) == [i \in 1..(high - low + 1) |-> IntToStr(low + i - 1)]

\* NamingPattern.create_range_suffix_pattern: the pattern
\*   ^(?P<base_name>.+) delimiter (?P<suffix>(number_options)) extension $
\* compiled with re.IGNORECASE; delimiter and extension are re.escape()d, so
\* they match as literal text.
create_range_suffix_pattern(delimiter, extension, suffix_range) ==
    LET number_options == Join(RangeStrings(suffix_range[1], suffix_range[2]), <<"|">>)
    IN [shape |-> "base_delim_suffix_ext",
        groups |-> {"base_name", "suffix"},
        delimiter |-> delimiter,
        suffix_kind |-> "alternation",
        suffix_text |-> number_options,
        min_digits |-> 0,
        max_digits |-> 0,
        extension |-> extension]

\* NamingPattern.create_numeric_suffix_pattern: the pattern
\*   ^(?P<base_name>.+) delimiter (?P<suffix> digit_part) extension $
\* with digit_part \d+ when max_digits is None (<<>> here), \d{min} when the
\* two are equal and \d{min,max} otherwise; re.compile raises re.error for
\* \d{min,max} with min > max.  In the record max_digits 0 stands for a run
\* without upper bound.
create_numeric_suffix_pattern(delimiter, extension, min_digits, max_digits) ==
    IF max_digits # <<>> /\ min_digits > max_digits[1]
    THEN [shape |-> "re.error"]
    ELSE [shape |-> "base_delim_suffix_ext",
          groups |-> {"base_name", "suffix"},
          delimiter |-> delimiter,
          suffix_kind |-> "digits",
          suffix_text |-> <<>>,
          min_digits |-> IF max_digits = <<>> THEN 1 ELSE min_digits,
          max_digits |-> IF max_digits = <<>> THEN 0 ELSE max_digits[1],
          extension |-> extension]

\* Does the piece of text `s` match the suffix group of pattern `p`?
SuffixMatches(p, s) ==
    IF p.suffix_kind = "alternation"
    THEN LET alts == Alternatives(p.suffix_text)
         IN \E i \in 1..Len(alts) : EqIgnoreCase(alts[i], s)
    ELSE /\ \A i \in 1..Len(s) : s[i] \in Digits
         /\ Len(s) >= p.min_digits
         /\ (p.max_digits = 0 \/ Len(s) <= p.max_digits)

\* The lengths n of a base name f[1..n] (".+": at least one character; no
\* base_name group: nothing before the rest) for which the rest of f matches
\* delimiter, suffix group, extension and the end of the text.
BaseLengths(p, f) ==
    {n \in (IF "base_name" \in p.groups THEN 1..Len(f) ELSE {0}) :
        /\ n + Len(p.delimiter) + Len(p.extension) <= Len(f)
        /\ EqIgnoreCase(p.delimiter, Slice(f, n + 1, n + Len(p.delimiter)))
        /\ EqIgnoreCase(p.extension, Slice(f, Len(f) - Len(p.extension) + 1, Len(f)))
        /\ SuffixMatches(p, Slice(f, n + Len(p.delimiter) + 1, Len(f) - Len(p.extension)))}

\* re.Pattern.match(filename) for the patterns of NamingPattern: ".+" is
\* greedy, so of all base names that let the rest match the longest is taken.
\* `groups` are the keys of match.groupdict().
PatternMatch(p, f) ==
    IF p.shape = "base_delim_suffix_ext"
    THEN IF BaseLengths(p, f) = {} THEN NoMatch
         ELSE LET n == CHOOSE m \in BaseLengths(p, f) : \A k \in BaseLengths(p, f) : k <= m
              IN [matched |-> TRUE,
                  groups |-> p.groups,
                  base_name |-> Slice(f, 1, n),
                  suffix |-> Slice(f, n + Len(p.delimiter) + 1, Len(f) - Len(p.extension))]
    ELSE NoMatch

\* NamingPattern.create_custom_pattern on the template ^(?P<suffix>\d+)\.png$
\* (only a suffix group: a pure serial number).
CustomSerialPattern ==
    [shape |-> "base_delim_suffix_ext", groups |-> {"suffix"}, delimiter |-> <<>>,
     suffix_kind |-> "digits", suffix_text |-> <<>>, min_digits |-> 1, max_digits |-> 0,
     extension |-> <<".", "p", "n", "g">>]

\* NamingPattern.create_custom_pattern on the template ^(?P<base_name>.+)\.png$
\* (only a base_name group: one output per source).
CustomBasenamePattern ==
    [shape |-> "base_delim_suffix_ext", groups |-> {"base_name"}, delimiter |-> <<>>,
     suffix_kind |-> "alternation", suffix_text |-> <<>>, min_digits |-> 0, max_digits |-> 0,
     extension |-> <<".", "p", "n", "g">>]

-----------------------------------------------------------------------------
(* NamingPattern as a state machine: a factory call, then one match *)

\* Text of the file names the pattern is tried on: every concatenation of a
\* start, a middle, an end piece and a tail.
NamingFilenames ==
    LET NameStarts == {<<>>, <<"i", "m", "g">>, <<"I", "M", "G">>, <<"a", "_", "1">>}
        NameMiddles == {<<>>, <<"_">>, <<"-">>}
        NameEnds == {<<>>, <<"0">>, <<"1">>, <<"3">>, <<"5">>, <<"6">>, <<"0", "3">>, <<"1", "0">>}
        NameTails == {<<>>, <<".", "p", "n", "g">>, <<".", "P", "N", "G">>, <<".", "j", "p", "g">>}
    IN {a \o b \o c \o d : a \in NameStarts, b \in NameMiddles, c \in NameEnds, d \in NameTails}

NamingDelimiters == {<<"_">>, <<"-">>}
NamingExtensions == {<<".", "p", "n", "g">>}
\* The range spin boxes of the GUI are independent: low may exceed high.
MaxRangeBound == 6
NamingRanges == {<<low, high>> : low \in {1, 3}, high \in 1..MaxRangeBound}
\* min_digits in 1..MaxDigits; max_digits None (<<>>) or in 1..MaxDigits
MaxDigits == 2

InitNamingIdle ==
    /\ np_args = [suffix_type |-> "none", delimiter |-> <<>>, extension |-> <<>>,
                  suffix_range |-> <<1, 1>>, min_digits |-> 1, max_digits |-> <<>>]
    /\ np_pattern = NoPattern
    /\ np_filename = <<>>
    /\ np_match = NotCalled
    /\ np_pc = "idle"

InitNaming ==
    /\ np_args \in
           [suffix_type : {"range"}, delimiter : NamingDelimiters,
            extension : NamingExtensions, suffix_range : NamingRanges,
            min_digits : {1}, max_digits : {<<>>}]
           \cup
           [suffix_type : {"numeric"}, delimiter : NamingDelimiters,
            extension : NamingExtensions, suffix_range : {<<1, 9>>},
            min_digits : 1..MaxDigits, max_digits : {<<>>} \cup {<<k>> : k \in 1..MaxDigits}]
    /\ np_pattern = NoPattern
    /\ np_filename \in NamingFilenames
    /\ np_match = NotCalled
    /\ np_pc = "start"
    /\ fs_dirs = AllDirsPresent

NP_CreateRangeSuffixPattern ==
    /\ np_pc = "start" /\ np_args.suffix_type = "range"
    /\ np_pattern' = create_range_suffix_pattern(np_args.delimiter, np_args.extension,
                                                 np_args.suffix_range)
    /\ np_pc' = "compiled"
    /\ UNCHANGED <<np_args, np_filename, np_match>>
    /\ UNCHANGED othersNaming

NP_CreateNumericSuffixPattern ==
    /\ np_pc = "start" /\ np_args.suffix_type = "numeric"
    /\ np_pattern' = create_numeric_suffix_pattern(np_args.delimiter, np_args.extension,
                                                   np_args.min_digits, np_args.max_digits)
    /\ np_pc' = IF np_pattern'.shape = "re.error" THEN "raised" ELSE "compiled"
    /\ UNCHANGED <<np_args, np_filename, np_match>>
    /\ UNCHANGED othersNaming

NP_Match ==
    /\ np_pc = "compiled"
    /\ np_match' = PatternMatch(np_pattern, np_filename)
    /\ np_pc' = "matched"
    /\ UNCHANGED <<np_args, np_pattern, np_filename>>
    /\ UNCHANGED othersNaming

NextNaming == NP_CreateRangeSuffixPattern \/ NP_CreateNumericSuffixPattern \/ NP_Match

-----------------------------------------------------------------------------
(* C9 *)

\* int(s) of a text of digits.
RECURSIVE StrToInt(_)
StrToInt(s) ==
    IF s = <<>> THEN 0 ELSE 10 * StrToInt(Slice(s, 1, Len(s) - 1)) + DigitValue(s[Len(s)])

\* `s` is the decimal form without leading zeros of an integer in low..high.
IsDecimalInRange(s, low, high) ==
    /\ s # <<>>
    /\ \A i \in 1..Len(s) : s[i] \in Digits
    /\ (Len(s) = 1 \/ s[1] # "0")
    /\ low <= StrToInt(s) /\ StrToInt(s) <= high

\* f is base ++ d ++ suffix ++ e up to letter case, with a non-empty base and
\* an in-range decimal suffix.
IsRangeName(f, base, suffix, d, e, low, high) ==
    /\ base # <<>>
    /\ Len(f) = Len(base) + Len(d) + Len(suffix) + Len(e)
    /\ Slice(f, 1, Len(base)) = base
    /\ Slice(f, Len(base) + Len(d) + 1, Len(f) - Len(e)) = suffix
    /\ Lower(f) = Lower(base \o d \o suffix \o e)
    /\ IsDecimalInRange(suffix, low, high)

HasRangeName(f, d, e, low, high) ==
    \E n \in 1..Len(f) : \E m \in 0..Len(f) :
        /\ n + Len(d) + m + Len(e) = Len(f)
        /\ IsRangeName(f, Slice(f, 1, n), Slice(f, n + Len(d) + 1, n + Len(d) + m),
                       d, e, low, high)

\* C9: the range-suffix matcher matches a file name iff it is a non-empty base
\* name, the delimiter, the decimal form without leading zeros of an integer
\* of low..high, and the extension (letters compared case-insensitively); on a
\* match the groups base_name and suffix are those two parts.
C9_RangeMatcherExact ==
    (np_pc = "matched" /\ np_args.suffix_type = "range") =>
        LET d == np_args.delimiter
            e == np_args.extension
            low == np_args.suffix_range[1]
            high == np_args.suffix_range[2]
        IN /\ (np_match.matched = TRUE) <=> HasRangeName(np_filename, d, e, low, high)
           /\ np_match.matched = TRUE =>
                  IsRangeName(np_filename, np_match.base_name, np_match.suffix,
                              d, e, low, high)

\* The same statement for ranges that are not empty (low <= high).
C9_RangeMatcherExactNonEmptyRange ==
    np_args.suffix_range[1] <= np_args.suffix_range[2] => C9_RangeMatcherExact

\* The example of the claim: range (1,5), "_", ".png".
C9_ExampleReached ==
    /\ np_pc = "matched"
    /\ np_args.suffix_type = "range"
    /\ np_args.delimiter = <<"_">> /\ np_args.extension = <<".", "p", "n", "g">>
    /\ np_args.suffix_range = <<1, 5>>
    /\ np_filename = <<"i", "m", "g", "_", "3", ".", "p", "n", "g">>
    /\ np_match.matched = TRUE
    /\ np_match.base_name = <<"i", "m", "g">>
    /\ np_match.suffix = <<"3">>

\* f is a non-empty base name, the delimiter d, a run of digits, and the
\* extension e (d and e up to letter case); the run has at least min_digits
\* digits and, when max_digits is given, at most max_digits.
HasNumericName(f, d, e, min_digits, max_digits) ==
    \E n \in 1..Len(f) : \E m \in 0..Len(f) :
        /\ n + Len(d) + m + Len(e) = Len(f)
        /\ Lower(Slice(f, n + 1, n + Len(d))) = Lower(d)
        /\ Lower(Slice(f, n + Len(d) + m + 1, Len(f))) = Lower(e)
        /\ \A i \in (n + Len(d) + 1)..(n + Len(d) + m) : f[i] \in Digits
        /\ m >= min_digits
        /\ (max_digits = <<>> \/ m <= max_digits[1])

\* C13: the numeric-suffix matcher matches a file name iff it is a non-empty
\* base name, the delimiter, a run of n digits and the extension, with
\* n >= min_digits and, when max_digits is given, n <= max_digits; without
\* max_digits a run shorter than min_digits is still rejected.
C13_NumericMatcherExact ==
    (np_pc = "matched" /\ np_args.suffix_type = "numeric") =>
        ((np_match.matched = TRUE) <=>
            HasNumericName(np_filename, np_args.delimiter, np_args.extension,
                           np_args.min_digits, np_args.max_digits))

-----------------------------------------------------------------------------
(* ImageVerifier: scan the source folder, scan the target folder, verify    *)
(* completeness, copy what is missing.  The calling thread submits one task *)
(* per file to a ThreadPoolExecutor and only then resets the progress       *)
(* fields; the tasks run on the pool's threads as soon as they are          *)
(* submitted.                                                               *)

None == "None"

ToSet(seq) == {seq[i] : i \in 1..Len(seq)}

ExtPng == <<".", "p", "n", "g">>
ExtJpg == <<".", "j", "p", "g">>

\* source_extensions, the default of scan_source_images
SourceExtensions == {ExtJpg, <<".", "j", "p", "e", "g">>, ExtPng}

\* filename.lower().endswith(source_extensions)
HasSourceExtension(f) == \E e \in SourceExtensions : EndsWith(Lower(f), e)

\* os.path.splitext(filename)[0]: the text before the last dot.
SplitExtBase(f) ==
    IF \E i \in 2..Len(f) : f[i] = "."
    THEN LET k == CHOOSE i \in 2..Len(f) : f[i] = "." /\ \A j \in (i + 1)..Len(f) : f[j] # "."
         IN Slice(f, 1, k - 1)
    ELSE f

\* The folders the verifier is run on.
SourceListings ==
    {<<>>,
     <<<<"A">> \o ExtJpg>>,
     <<<<"A">> \o ExtJpg, <<"B">> \o ExtJpg, <<"C">> \o ExtPng>>,
     <<<<"n", ".", "t", "x", "t">>, <<"A">> \o ExtJpg>>}

TargetListings ==
    {<<>>,
     <<<<"B", "_", "1">> \o ExtPng, <<"A", "_", "1">> \o ExtPng, <<"A", "_", "2">> \o ExtPng>>,
     <<<<"A", "_", "1">> \o ExtPng, <<"A", "_", "2">> \o ExtPng, <<"A", "_", "3">> \o ExtPng>>,
     <<<<"A", "_", "1">> \o ExtPng, <<"A", "_", "1", ".", "P", "N", "G">>>>,
     <<<<"A">> \o ExtPng, <<"1">> \o ExtPng, <<"x", "_", "y">> \o ExtPng>>,
     <<<<"1">> \o ExtPng, <<"2">> \o ExtPng>>}

\* The naming policies of a run: suffix_type and what comes with it.
Policies ==
    {[suffix_type |-> "range", suffix_range |-> <<1, 2>>],
     [suffix_type |-> "range", suffix_range |-> <<1, 3>>],
     [suffix_type |-> "custom_serial", suffix_range |-> <<0, 0>>],
     [suffix_type |-> "custom_basename", suffix_range |-> <<0, 0>>]}

MaxWorkers == 2

\* verify_image_processing, lines 182-244: the pattern of the policy, the
\* expected suffixes and the two mode flags.
AdapterPolicy(policy) ==
    IF policy.suffix_type = "range"
    THEN [naming_pattern |-> create_range_suffix_pattern(<<"_">>, ExtPng, policy.suffix_range),
          expected_suffixes |-> RangeStrings(policy.suffix_range[1], policy.suffix_range[2]),
          is_pure_serial |-> FALSE, is_pure_basename |-> FALSE]
    ELSE IF policy.suffix_type = "custom_serial"
    THEN [naming_pattern |-> CustomSerialPattern,
          expected_suffixes |-> <<>>,
          is_pure_serial |-> ("base_name" \notin CustomSerialPattern.groups
                              /\ "suffix" \in CustomSerialPattern.groups),
          is_pure_basename |-> FALSE]
    ELSE [naming_pattern |-> CustomBasenamePattern,
          expected_suffixes |-> << <<>> >>,
          is_pure_serial |-> FALSE,
          is_pure_basename |-> ("base_name" \in CustomBasenamePattern.groups
                                /\ "suffix" \notin CustomBasenamePattern.groups)]

\* The expected suffixes a direct caller of ImageVerifier hands to
\* verify_completeness: for a range policy the versions 1 and 2.
CallerExpectedSuffixes(policy) ==
    IF policy.suffix_type = "range" THEN <<<<"1">>, <<"2">>>>
    ELSE AdapterPolicy(policy).expected_suffixes

\* The parameters ImageVerifier.__init__ accepts.
ImageVerifierInitParams == {"source_folder", "target_folder", "missing_folder", "max_workers"}

\* The keyword arguments of the constructor call: the adapter passes
\* is_pure_serial by keyword after four positional arguments.
ConstructorKeywords(entry) == IF entry = "adapter" THEN {"is_pure_serial"} ELSE {}

EmptyDict == [b \in {} |-> <<>>]

\* A dictionary whose entry is replaced where the code appends.
DictAppend_Overwrite(d, k, v) ==
    [x \in DOMAIN d \cup {k} |-> IF x = k THEN <<v>> ELSE d[x]]

\* defaultdict(list): d[k].append(v)
DictAppend(d, k, v) ==
    [x \in DOMAIN d \cup {k} |-> IF x = k THEN (IF k \in DOMAIN d THEN Append(d[k], v) ELSE <<v>>)
                                 ELSE d[x]]

\* int((processed_files / total_files) * 100) for total_files # 0
PercentOf(processed, total) ==
    FTrunc(FMul(FDiv(FFromInt(processed), FFromInt(total)), FFromInt(100)))

vInputs == <<v_args, source_folder, target_folder, naming_pattern, expected_suffixes>>
vResults == <<source_images, processed_images, naming_errors, missing_images, incomplete_images>>
vProgress == <<total_files, processed_files, progress_percent, progress_call>>
vPool == <<v_lock, all_files, futures>>
vCopy == <<missing_queue, copy_tasks, missing_folder>>
vPos == <<v_phase, v_step>>

InitVerifierFields ==
    /\ missing_folder = {}
    /\ naming_pattern = NoPattern
    /\ expected_suffixes = None
    /\ source_images = <<>>
    /\ processed_images = EmptyDict
    /\ naming_errors = <<>>
    /\ missing_images = <<>>
    /\ incomplete_images = <<>>
    /\ total_files = 0
    /\ processed_files = 0
    /\ progress_percent = 0
    /\ progress_call = None
    /\ v_lock = 0
    /\ all_files = <<>>
    /\ futures = <<>>
    /\ missing_queue = <<>>
    /\ copy_tasks = <<>>
    /\ v_step = "none"

InitVerifierIdle ==
    /\ v_args = [entry |-> "none", policy |-> [suffix_type |-> "none", suffix_range |-> <<0, 0>>],
                 max_workers |-> 1]
    /\ source_folder = <<>>
    /\ target_folder = <<>>
    /\ v_phase = "idle"
    /\ InitVerifierFields

InitVerifier ==
    /\ v_args \in [entry : {"adapter", "core"}, policy : Policies, max_workers : 1..MaxWorkers]
    /\ fs_dirs \in {[d \in DOMAIN AllDirsPresent |-> IF d \in absent THEN "absent" ELSE "present"] :
                        absent \in {{}, {"source_folder", "missing_folder"},
                                    {"target_folder", "missing_folder"}, {"target_folder"}}}
    /\ source_folder \in IF Exists("source_folder") THEN SourceListings ELSE {<<>>}
    /\ target_folder \in IF Exists("target_folder") THEN TargetListings ELSE {<<>>}
    /\ v_phase = "call"
    /\ InitVerifierFields

\* verify_image_processing, lines 182-244 (or a direct caller of the core
\* doing the same): build the naming pattern and the expected suffixes.
BuildPattern ==
    /\ v_phase = "call"
    /\ naming_pattern' = AdapterPolicy(v_args.policy).naming_pattern
    /\ expected_suffixes' = IF v_args.entry = "adapter"
                            THEN AdapterPolicy(v_args.policy).expected_suffixes
                            ELSE CallerExpectedSuffixes(v_args.policy)
    /\ v_phase' = "construct"
    /\ UNCHANGED <<v_args, source_folder, target_folder, v_step>>
    /\ UNCHANGED <<vResults, vProgress, vPool, vCopy>>
    /\ UNCHANGED othersVerifier

\* ImageVerifier(...): Python raises TypeError for a keyword argument that
\* __init__ does not declare; otherwise the missing folder is created when
\* it does not exist (lines 38-43) and the fields are initialised.
Construct ==
    /\ v_phase = "construct"
    /\ IF ConstructorKeywords(v_args.entry) \subseteq ImageVerifierInitParams
       THEN v_phase' = "source" /\ v_step' = "list" /\ fs_dirs' = Makedirs("missing_folder")
       ELSE v_phase' = "raised" /\ v_step' = "TypeError" /\ UNCHANGED fs_dirs
    /\ UNCHANGED <<vInputs, vResults, vProgress, vPool, vCopy>>
    /\ UNCHANGED <<varsNaming, varsBatch, varsBox, varsModel>>

ScanPhases == {"source", "target", "verify"}

\* The first lines of scan_source_images, scan_processed_images and
\* verify_completeness: list the work and clear the result lists.
OrchList ==
    /\ v_phase \in ScanPhases /\ v_step = "list"
    /\ v_phase = "source" => Exists("source_folder")
    /\ v_phase = "target" => Exists("target_folder")
    /\ futures' = <<>>
    /\ v_step' = "submit"
    /\ IF v_phase = "source"
       THEN /\ all_files' = SelectSeq(source_folder, HasSourceExtension)
            /\ source_images' = <<>>
            /\ UNCHANGED <<processed_images, naming_errors, missing_images,
                           incomplete_images, missing_queue>>
       ELSE IF v_phase = "target"
       THEN /\ all_files' = target_folder
            /\ processed_images' = EmptyDict
            /\ naming_errors' = <<>>
            /\ UNCHANGED <<source_images, missing_images, incomplete_images, missing_queue>>
       ELSE /\ all_files' = source_images
            /\ missing_images' = <<>>
            /\ incomplete_images' = <<>>
            /\ missing_queue' = <<>>
            /\ UNCHANGED <<source_images, processed_images, naming_errors>>
    /\ UNCHANGED <<vInputs, vProgress, v_lock, copy_tasks, missing_folder, v_phase>>
    /\ UNCHANGED othersVerifier

\* executor.submit(...) for the next file, in the order of os.listdir
\* (of source_images in verify_completeness).
OrchSubmit ==
    /\ v_phase \in ScanPhases /\ v_step = "submit"
    /\ all_files # <<>>
    /\ futures' = Append(futures, [arg |-> Head(all_files), st |-> "queued",
                                   need_to_copy |-> FALSE])
    /\ all_files' = Tail(all_files)
    /\ UNCHANGED <<vInputs, vResults, vProgress, v_lock, vCopy, vPos>>
    /\ UNCHANGED othersVerifier

OrchSubmitted ==
    /\ v_phase \in ScanPhases /\ v_step = "submit"
    /\ all_files = <<>>
    /\ v_step' = "reset1"
    /\ UNCHANGED <<vInputs, vResults, vProgress, vPool, vCopy, v_phase>>
    /\ UNCHANGED othersVerifier

\* The order in which the calling thread resets the progress fields:
\* lines 110-112 (source scan), 156-158 and 222-224 (the other two).
ResetOrder(phase) ==
    IF phase = "source" THEN <<"total_files", "processed_files", "progress_percent">>
    ELSE <<"processed_files", "total_files", "progress_percent">>

ResetIndex(step) == CASE step = "reset1" -> 1 [] step = "reset2" -> 2 [] step = "reset3" -> 3

OrchReset ==
    /\ v_phase \in ScanPhases /\ v_step \in {"reset1", "reset2", "reset3"}
    /\ LET field == ResetOrder(v_phase)[ResetIndex(v_step)]
       IN /\ total_files' = IF field = "total_files" THEN Len(futures) ELSE total_files
          /\ processed_files' = IF field = "processed_files" THEN 0 ELSE processed_files
          /\ progress_percent' = IF field = "progress_percent" THEN 0 ELSE progress_percent
    /\ v_step' = CASE v_step = "reset1" -> "reset2" [] v_step = "reset2" -> "reset3"
                   [] v_step = "reset3" -> "update"
    /\ UNCHANGED <<vInputs, vResults, progress_call, vPool, vCopy, v_phase>>
    /\ UNCHANGED othersVerifier

\* self._update_progress() of the calling thread, then _monitor_progress.
OrchUpdateProgress ==
    /\ v_phase \in ScanPhases /\ v_step = "update"
    /\ progress_call' = <<processed_files, total_files, progress_percent>>
    /\ v_step' = "wait"
    /\ UNCHANGED <<vInputs, vResults, total_files, processed_files, progress_percent,
                   vPool, vCopy, v_phase>>
    /\ UNCHANGED othersVerifier

\* A wait that returns as soon as every task has been started.
TaskOver_Started(t) == t.st # "queued"

TaskOver(t) == t.st \in {"done", "raised"}

\* Is verify_completeness called after the target scan?  (Adapter lines
\* 284-299: not in pure serial mode, not with no expected suffix.)
VerifyIsCalled ==
    /\ ~AdapterPolicy(v_args.policy).is_pure_serial
    /\ expected_suffixes # <<>>

\* os.listdir of a folder that does not exist raises FileNotFoundError
\* (lines 99 and 145).  Nothing in the core catches it; the adapter catches
\* the one of scan_processed_images (lines 266-269) and goes on.
ListDirFails ==
    /\ v_step = "list"
    /\ \/ v_phase = "source" /\ ~Exists("source_folder")
       \/ v_phase = "target" /\ ~Exists("target_folder")
    /\ IF v_phase = "target" /\ v_args.entry = "adapter"
       THEN IF VerifyIsCalled THEN v_phase' = "verify" /\ v_step' = "list"
            ELSE v_phase' = "done" /\ v_step' = "no verification"
       ELSE v_phase' = "raised" /\ v_step' = "FileNotFoundError"
    /\ UNCHANGED <<vInputs, vResults, vProgress, vPool, vCopy>>
    /\ UNCHANGED othersVerifier

\* concurrent.futures.wait(futures) and the end of the with block: every
\* task is over (its exception, if any, stays in the future unread).
OrchWait ==
    /\ v_phase \in ScanPhases /\ v_step = "wait"
    /\ \A i \in 1..Len(futures) : TaskOver(futures[i])
    /\ IF v_phase = "source" THEN v_phase' = "target" /\ v_step' = "list"
       ELSE IF v_phase = "target"
       THEN IF VerifyIsCalled THEN v_phase' = "verify" /\ v_step' = "list"
            ELSE v_phase' = "done" /\ v_step' = "no verification"
       ELSE v_phase' = "copy" /\ v_step' = "drain"
    /\ UNCHANGED <<vInputs, vResults, vProgress, vPool, vCopy>>
    /\ UNCHANGED othersVerifier

\* Tasks that occupy a thread of the pool.
Running == {i \in 1..Len(futures) : futures[i].st \in {"inc", "pct", "upd", "put"}}

\* The executor's work queue is first in, first out; a thread is free; the
\* task gets self._lock.
CanStart(i) ==
    /\ i \in 1..Len(futures)
    /\ futures[i].st = "queued"
    /\ \A j \in 1..(i - 1) : futures[j].st # "queued"
    /\ Cardinality(Running) < v_args.max_workers
    /\ v_lock = 0

\* _process_source_file up to the append, under the lock.
ProcessSourceFile(i) ==
    /\ v_phase = "source" /\ CanStart(i)
    /\ source_images' = Append(source_images, <<SplitExtBase(futures[i].arg), futures[i].arg>>)
    /\ v_lock' = i
    /\ futures' = [futures EXCEPT ![i].st = "inc"]
    /\ UNCHANGED <<vInputs, processed_images, naming_errors, missing_images,
                   incomplete_images, vProgress, all_files, vCopy, vPos>>
    /\ UNCHANGED othersVerifier

\* _process_target_file up to the classification, under the lock.  A match
\* whose groupdict has no base_name is a naming error and returns at once,
\* past the progress update.
ProcessTargetFile(i) ==
    /\ v_phase = "target" /\ CanStart(i)
    /\ LET filename == futures[i].arg
           match == PatternMatch(naming_pattern, filename)
       IN IF match.matched = TRUE /\ "base_name" \notin match.groups
          THEN /\ naming_errors' = Append(naming_errors, filename)
               /\ futures' = [futures EXCEPT ![i].st = "done"]
               /\ UNCHANGED <<processed_images, v_lock>>
          ELSE /\ IF match.matched = TRUE
                  THEN /\ processed_images' =
                              DictAppend(processed_images, match.base_name,
                                         IF "suffix" \in match.groups THEN match.suffix ELSE <<>>)
                       /\ UNCHANGED naming_errors
                  ELSE /\ naming_errors' = Append(naming_errors, filename)
                       /\ UNCHANGED processed_images
               /\ v_lock' = i
               /\ futures' = [futures EXCEPT ![i].st = "inc"]
    /\ UNCHANGED <<vInputs, source_images, missing_images, incomplete_images,
                   vProgress, all_files, vCopy, vPos>>
    /\ UNCHANGED othersVerifier

\* A verdict that takes every difference from the expected set, an excess
\* suffix included, for an incomplete item.
CompletenessVerdict_AnyDifference(base_name, expected, processed) ==
    IF base_name \notin DOMAIN processed
    THEN [kind |-> "missing", missing_suffixes |-> {}]
    ELSE IF ToSet(processed[base_name]) # expected
    THEN [kind |-> "incomplete", missing_suffixes |-> expected \ ToSet(processed[base_name])]
    ELSE [kind |-> "complete", missing_suffixes |-> {}]

\* _verify_image_completeness, lines 244-256: what one source item is.
CompletenessVerdict(base_name, expected, processed) ==
    IF base_name \notin DOMAIN processed
    THEN [kind |-> "missing", missing_suffixes |-> {}]
    ELSE IF ToSet(processed[base_name]) # expected
            /\ expected \ ToSet(processed[base_name]) # {}
    THEN [kind |-> "incomplete", missing_suffixes |-> expected \ ToSet(processed[base_name])]
    ELSE [kind |-> "complete", missing_suffixes |-> {}]

\* _verify_image_completeness up to the classification, under the lock.
VerifyImageCompleteness(i) ==
    /\ v_phase = "verify" /\ CanStart(i)
    /\ LET base_name == futures[i].arg[1]
           original_filename == futures[i].arg[2]
           verdict == CompletenessVerdict(base_name, ToSet(expected_suffixes), processed_images)
       IN /\ missing_images' = IF verdict.kind = "missing"
                               THEN Append(missing_images, original_filename)
                               ELSE missing_images
          /\ incomplete_images' = IF verdict.kind = "incomplete"
                                  THEN Append(incomplete_images,
                                              <<original_filename, verdict.missing_suffixes>>)
                                  ELSE incomplete_images
          /\ futures' = [futures EXCEPT ![i].st = "inc",
                                        ![i].need_to_copy = (verdict.kind # "complete")]
    /\ v_lock' = i
    /\ UNCHANGED <<vInputs, source_images, processed_images, naming_errors,
                   vProgress, all_files, vCopy, vPos>>
    /\ UNCHANGED othersVerifier

\* self.processed_files += 1 (lines 128, 188, 261), the lock held.
WorkerIncrement(i) ==
    /\ i \in 1..Len(futures) /\ futures[i].st = "inc"
    /\ processed_files' = processed_files + 1
    /\ futures' = [futures EXCEPT ![i].st = "pct"]
    /\ UNCHANGED <<vInputs, vResults, total_files, progress_percent, progress_call,
                   v_lock, all_files, vCopy, vPos>>
    /\ UNCHANGED othersVerifier

\* self.progress_percent = int((processed_files / total_files) * 100) (lines
\* 129, 189, 262): ZeroDivisionError while total_files is 0; the exception
\* leaves the with block (the lock is released) and ends the task.
WorkerPercent(i) ==
    /\ i \in 1..Len(futures) /\ futures[i].st = "pct"
    /\ IF total_files = 0
       THEN /\ futures' = [futures EXCEPT ![i].st = "raised"]
            /\ v_lock' = 0
            /\ UNCHANGED progress_percent
       ELSE /\ progress_percent' = PercentOf(processed_files, total_files)
            /\ futures' = [futures EXCEPT ![i].st = "upd"]
            /\ UNCHANGED v_lock
    /\ UNCHANGED <<vInputs, vResults, total_files, processed_files, progress_call,
                   all_files, vCopy, vPos>>
    /\ UNCHANGED othersVerifier

\* self._update_progress() (lines 130, 190, 263) and the end of the with
\* block; _verify_image_completeness goes on to the queue when need_to_copy.
WorkerUpdateProgress(i) ==
    /\ i \in 1..Len(futures) /\ futures[i].st = "upd"
    /\ progress_call' = <<processed_files, total_files, progress_percent>>
    /\ v_lock' = 0
    /\ futures' = [futures EXCEPT ![i].st = IF futures[i].need_to_copy THEN "put" ELSE "done"]
    /\ UNCHANGED <<vInputs, vResults, total_files, processed_files, progress_percent,
                   all_files, vCopy, vPos>>
    /\ UNCHANGED othersVerifier

\* missing_queue.put(original_filename), lines 266-267.
WorkerQueuePut(i) ==
    /\ i \in 1..Len(futures) /\ futures[i].st = "put"
    /\ missing_queue' = Append(missing_queue, futures[i].arg[2])
    /\ futures' = [futures EXCEPT ![i].st = "done"]
    /\ UNCHANGED <<vInputs, vResults, vProgress, v_lock, all_files, copy_tasks,
                   missing_folder, vPos>>
    /\ UNCHANGED othersVerifier

\* _copy_missing_files, lines 272-277: drain the queue.
CopyDrain ==
    /\ v_phase = "copy" /\ v_step = "drain"
    /\ copy_tasks' = missing_queue
    /\ missing_queue' = <<>>
    /\ IF missing_queue = <<>>
       THEN v_phase' = "done" /\ v_step' = "verified"
       ELSE v_phase' = "copy" /\ v_step' = "run"
    /\ UNCHANGED <<vInputs, vResults, vProgress, vPool, missing_folder>>
    /\ UNCHANGED othersVerifier

\* _copy_missing_files, lines 282-292: shutil.copy for every copy task.
CopyRun ==
    /\ v_phase = "copy" /\ v_step = "run"
    /\ missing_folder' = missing_folder \cup ToSet(copy_tasks)
    /\ v_phase' = "done" /\ v_step' = "verified"
    /\ UNCHANGED <<vInputs, vResults, vProgress, vPool, missing_queue, copy_tasks>>
    /\ UNCHANGED othersVerifier

NextVerifier ==
    \/ BuildPattern
    \/ Construct
    \/ OrchList
    \/ ListDirFails
    \/ OrchSubmit
    \/ OrchSubmitted
    \/ OrchReset
    \/ OrchUpdateProgress
    \/ OrchWait
    \/ \E i \in 1..Len(futures) : ProcessSourceFile(i)
    \/ \E i \in 1..Len(futures) : ProcessTargetFile(i)
    \/ \E i \in 1..Len(futures) : VerifyImageCompleteness(i)
    \/ \E i \in 1..Len(futures) : WorkerIncrement(i)
    \/ \E i \in 1..Len(futures) : WorkerPercent(i)
    \/ \E i \in 1..Len(futures) : WorkerUpdateProgress(i)
    \/ \E i \in 1..Len(futures) : WorkerQueuePut(i)
    \/ CopyDrain
    \/ CopyRun

\* Adapter lines 287-288: processed_total, the number of recorded suffixes.
RECURSIVE SumLens(_, _)
SumLens(d, keys) ==
    IF keys = {} THEN 0
    ELSE LET k == CHOOSE x \in keys : TRUE
         IN Len(d[k]) + SumLens(d, keys \ {k})

ProcessedTotal == SumLens(processed_images, DOMAIN processed_images)

-----------------------------------------------------------------------------
(* Properties of the verifier *)

\* The calling thread has just left scan_source_images / scan_processed_images.
SourceScanReturned == v_phase = "target" /\ v_step = "list"
TargetScanReturned ==
    \/ v_phase = "verify" /\ v_step = "list"
    \/ v_phase = "done" /\ v_step = "no verification"
VerifyWaited == v_phase \in {"copy", "done"} /\ v_step \in {"drain", "run", "verified"}
VerifyReturned == v_phase = "done" /\ v_step = "verified"

\* What the two folders hold, computed from the listings alone.
SourceItems ==
    {<<SplitExtBase(f), f>> : f \in {g \in ToSet(source_folder) : HasSourceExtension(g)}}
TargetMatch(f) == PatternMatch(naming_pattern, f)
Recorded(f) == TargetMatch(f).matched = TRUE /\ "base_name" \in TargetMatch(f).groups
RecordedSuffix(f) == IF "suffix" \in TargetMatch(f).groups THEN TargetMatch(f).suffix ELSE <<>>

\* C1: once verify_completeness has classified every source item, a file is
\* in missing_images exactly when its base name has no recorded suffix, in
\* incomplete_images exactly when the base name is recorded and some expected
\* suffix is not among the recorded ones (and then with exactly the expected
\* minus the recorded suffixes), and in neither list otherwise; suffixes
\* beyond the expected ones never make an item incomplete.
C1_Classification ==
    VerifyWaited =>
        \A item \in ToSet(source_images) :
            LET base == item[1]
                filename == item[2]
                recorded == base \in DOMAIN processed_images
                lacking == IF recorded
                           THEN ToSet(expected_suffixes) \ ToSet(processed_images[base])
                           ELSE {}
            IN /\ (filename \in ToSet(missing_images)) <=> ~recorded
               /\ (\E p \in ToSet(incomplete_images) : p[1] = filename)
                      <=> (recorded /\ lacking # {})
               /\ \A p \in ToSet(incomplete_images) : p[1] = filename => p[2] = lacking

\* The example of the specification: sources A, B, C, recorded A: {1, 2} and
\* B: {1}, expected {1, 2}; C is missing and B lacks 2.
C1_ExampleClassified ==
    /\ VerifyReturned
    /\ ToSet(source_images) = {<<<<"A">>, <<"A">> \o ExtJpg>>, <<<<"B">>, <<"B">> \o ExtJpg>>,
                               <<<<"C">>, <<"C">> \o ExtPng>>}
    /\ DOMAIN processed_images = {<<"A">>, <<"B">>}
    /\ ToSet(processed_images[<<"A">>]) = {<<"1">>, <<"2">>}
    /\ ToSet(processed_images[<<"B">>]) = {<<"1">>}
    /\ ToSet(expected_suffixes) = {<<"1">>, <<"2">>}
    /\ missing_images = <<<<"C">> \o ExtPng>>
    /\ incomplete_images = <<<<<<"B">> \o ExtJpg, {<<"2">>}>>>>

\* C2: when verify_completeness has returned, the files that went to the copy
\* queue and were copied are exactly the files of missing_images and of
\* incomplete_images, whatever the interleaving of workers and resets.
C2_CopiedExactlyTheFindings ==
    VerifyReturned =>
        LET findings == ToSet(missing_images) \cup {p[1] : p \in ToSet(incomplete_images)}
        IN /\ ToSet(copy_tasks) = findings
           /\ missing_folder = findings

\* C4: when they return, the results of scan_source_images and
\* scan_processed_images are a function of the two listings and the pattern alone: each source item once,
\* per base name the set of suffixes of its matching files, and the set of
\* naming-error file names, for every max_workers and interleaving.
C4_ScanResultsDetermined ==
    /\ SourceScanReturned =>
           /\ ToSet(source_images) = SourceItems
           /\ Len(source_images) = Cardinality(SourceItems)
    /\ TargetScanReturned =>
           /\ DOMAIN processed_images =
                  {TargetMatch(f).base_name : f \in {g \in ToSet(target_folder) : Recorded(g)}}
           /\ \A b \in DOMAIN processed_images :
                  ToSet(processed_images[b]) =
                      {RecordedSuffix(f) : f \in {g \in ToSet(target_folder) :
                                                     Recorded(g) /\ TargetMatch(g).base_name = b}}
           /\ ToSet(naming_errors) = {f \in ToSet(target_folder) : ~Recorded(f)}

\* Two workers, a worker that ended in an exception, two suffixes recorded
\* for one base name and a naming error: the results are still complete.
C4_RacyScanFinished ==
    /\ TargetScanReturned
    /\ v_args.max_workers = 2
    /\ \E i \in 1..Len(futures) : futures[i].st = "raised"
    /\ \E b \in DOMAIN processed_images : Len(processed_images[b]) = 2
    /\ naming_errors # <<>>

\* C5: a call of verify_image_processing never ends in an exception.
C5_AdapterCallNeverRaises ==
    v_args.entry = "adapter" => v_phase # "raised"

\* C10: in pure serial mode every target file that matches the pattern is
\* counted as processed and is no naming error.
C10_PureSerialMatchesCounted ==
    (AdapterPolicy(v_args.policy).is_pure_serial /\ TargetScanReturned) =>
        /\ \A f \in ToSet(target_folder) :
               TargetMatch(f).matched = TRUE => f \notin ToSet(naming_errors)
        /\ ProcessedTotal = Cardinality({f \in ToSet(target_folder) : TargetMatch(f).matched = TRUE})

\* C11: after scan_processed_images every entry of the target directory is
\* accounted for once: its (base_name, suffix) is recorded in
\* processed_images exactly when the file name matches the pattern, the name
\* is in naming_errors exactly when it does not match, and the recorded
\* suffix entries and the naming errors add up to the number of entries.
C11_TargetEntriesAccounted ==
    TargetScanReturned =>
        /\ \A f \in ToSet(target_folder) :
               /\ (TargetMatch(f).matched = TRUE) <=>
                      (/\ TargetMatch(f).matched = TRUE
                       /\ TargetMatch(f).base_name \in DOMAIN processed_images
                       /\ RecordedSuffix(f) \in ToSet(processed_images[TargetMatch(f).base_name]))
               /\ (f \in ToSet(naming_errors)) <=> (TargetMatch(f).matched # TRUE)
        /\ ProcessedTotal + Len(naming_errors) = Len(target_folder)

\* C12: when an input directory does not exist, verify_image_processing
\* and the two batch calls do not raise, make no directory, write no file,
\* start no task, and the batch calls return zero counts with a message that
\* names the problem.
C12_MissingInputDirectoryReported ==
    /\ (v_phase # "idle" /\ (~Exists("source_folder") \/ ~Exists("target_folder"))) =>
           /\ v_phase # "raised"
           /\ fs_dirs["missing_folder"] # "created"
           /\ missing_folder = {}
           /\ futures = <<>>
    /\ (b_pc = "returned" /\ (~Exists("bg_dir") \/ ~Exists("sample_dir"))) =>
           /\ b_result \in {<<0, 0, <<"source directory does not exist">>>>,
                            <<0, 0, <<"background or sample directory does not exist">>>>}
           /\ fs_dirs["output_dir"] # "created"
           /\ b_tasks = <<>>

C28_ProgressCallWithinBounds ==
    progress_call # None =>
        /\ 0 <= progress_call[1] /\ progress_call[1] <= progress_call[2]
        /\ 0 <= progress_call[3] /\ progress_call[3] <= 100

\* C23: in the processed-group map the suffixes recorded for one base name
\* are pairwise distinct: two target files that give the same base name and
\* suffix leave that suffix once.
C23_SuffixesDistinctPerBaseName ==
    \A b \in DOMAIN processed_images :
        \A i, j \in 1..Len(processed_images[b]) :
            i # j => processed_images[b][i] # processed_images[b][j]

\* The place of a position of the calling thread in the order of the phases
\* (the summary is what follows the return of the last call).
PhaseRank(phase) ==
    CASE phase = "source" -> 1 [] phase = "target" -> 2 [] phase = "verify" -> 3
      [] phase = "copy" -> 4 [] phase = "done" -> 5 [] phase = "raised" -> 6
      [] OTHER -> 0

\* What is over when a phase is entered.
EarlierPhasesOver ==
    /\ PhaseRank(v_phase) \in 2..5 =>
           /\ ToSet(source_images) = SourceItems
           /\ Len(source_images) = Cardinality(SourceItems)
    /\ PhaseRank(v_phase) \in 3..5 =>
           ProcessedTotal + Len(naming_errors) = Len(target_folder)
    /\ (PhaseRank(v_phase) \in 4..5 /\ v_step # "no verification") =>
           /\ Len(futures) = Len(source_images)
           /\ \A i \in 1..Len(futures) : futures[i].st \in {"done", "raised"}
    /\ (v_phase = "done" /\ v_step = "verified") => ToSet(copy_tasks) \subseteq missing_folder

\* C16: in a verification run the phases come in the order source scan,
\* target scan, verification, copy, summary, and none is entered again: no
\* target file is classified before every source file is listed, no source
\* item is verified before every target file is classified, no copy starts
\* before every verification task is over, and the run ends only after
\* every copy.
C16_PhasesInOrder ==
    [][PhaseRank(v_phase') >= PhaseRank(v_phase) /\ EarlierPhasesOver']_vars

\* A run with two workers that went through every phase and copied a file.
C16_FullRunCopied ==
    /\ v_phase = "done" /\ v_step = "verified"
    /\ v_args.max_workers = 2
    /\ Len(source_images) = 3
    /\ processed_images # EmptyDict
    /\ missing_folder # {}

-----------------------------------------------------------------------------
(* DiffLabelerModel: file names and background matching *)

ExtBmp == <<".", "b", "m", "p">>

\* f.lower().endswith(('.png', '.jpg', '.jpeg')), with '.bmp' in
\* get_sample_sequence and process_sample_sequence.
HasImageExtension(f, with_bmp) ==
    \E e \in SourceExtensions \cup (IF with_bmp THEN {ExtBmp} ELSE {}) : EndsWith(Lower(f), e)

AllDigits(s) == s # <<>> /\ \A i \in 1..Len(s) : s[i] \in Digits

\* The patterns of extract_base_name, in order (the literal suffixes in
\* Chinese characters work as the ASCII ones and are left out).
BaseNamePatterns ==
    <<[type |-> "literal", text |-> <<"_", "e", "d", "i", "t", "e", "d">>],
      [type |-> "literal", text |-> <<"_", "m", "a", "r", "k", "e", "d">>],
      [type |-> "literal", text |-> <<"_", "s", "a", "m", "p", "l", "e">>],
      [type |-> "version", text |-> <<>>],
      [type |-> "number", text |-> <<>>]>>

\* re.sub(pattern, '', s) for one of the patterns, all anchored at the end.
StripSuffix(s, pattern) ==
    IF pattern.type = "literal"
    THEN IF EndsWith(s, pattern.text) THEN Slice(s, 1, Len(s) - Len(pattern.text)) ELSE s
    ELSE LET starts == {i \in 1..Len(s) :
                           /\ s[i] \in {"-", "_"}
                           /\ IF pattern.type = "version"
                              THEN i < Len(s) /\ s[i + 1] = "v" /\ AllDigits(Slice(s, i + 2, Len(s)))
                              ELSE AllDigits(Slice(s, i + 1, Len(s)))}
         IN IF starts = {} THEN s
            ELSE Slice(s, 1, (CHOOSE i \in starts : \A j \in starts : i <= j) - 1)

RECURSIVE StripAll(_, _)
StripAll(s, patterns) ==
    IF patterns = <<>> THEN s ELSE StripAll(StripSuffix(s, Head(patterns)), Tail(patterns))

extract_base_name(filename) == StripAll(SplitExtBase(filename), BaseNamePatterns)

\* a in b for two strings
Contains(a, b) == \E i \in 0..(Len(b) - Len(a)) : Slice(b, i + 1, i + Len(a)) = a

\* One loop over the list: the first background in any of the relations.
find_matching_bg_OneLoop(sample_filename, bg_files) ==
    LET sample_base == extract_base_name(sample_filename)
        related == {i \in 1..Len(bg_files) :
                       \/ Contains(extract_base_name(bg_files[i]), sample_base)
                       \/ Contains(sample_base, extract_base_name(bg_files[i]))}
    IN IF related = {} THEN None
       ELSE bg_files[CHOOSE i \in related : \A j \in related : i <= j]

\* find_matching_bg: exact match, then background name inside the sample
\* name, then sample name inside the background name; the first in list order.
find_matching_bg(sample_filename, bg_files) ==
    LET sample_base == extract_base_name(sample_filename)
        indices == 1..Len(bg_files)
        exact == {i \in indices : extract_base_name(bg_files[i]) = sample_base}
        fuzzy == {i \in indices : Contains(extract_base_name(bg_files[i]), sample_base)}
        reverse == {i \in indices : Contains(sample_base, extract_base_name(bg_files[i]))}
        First(S) == CHOOSE i \in S : \A j \in S : i <= j
    IN IF exact # {} THEN bg_files[First(exact)]
       ELSE IF fuzzy # {} THEN bg_files[First(fuzzy)]
       ELSE IF reverse # {} THEN bg_files[First(reverse)]
       ELSE None

-----------------------------------------------------------------------------
(* DiffLabelerModel: batch_process and batch_process_by_sequence *)

IsBatchImage(f) == HasImageExtension(f, FALSE)
IsSequenceImage(f) == HasImageExtension(f, TRUE)

\* The base names of a list of files, each once, in order of first occurrence.
RECURSIVE BasesOf(_, _)
BasesOf(files, seen) ==
    IF files = <<>> THEN <<>>
    ELSE LET base == extract_base_name(Head(files))
         IN IF base \in seen THEN BasesOf(Tail(files), seen)
            ELSE <<base>> \o BasesOf(Tail(files), seen \cup {base})

\* get_sample_sequence: the sample files grouped by base name.  (Each group
\* is then sorted; its files are run concurrently, in no particular order.)
get_sample_sequence(dir) ==
    LET files == SelectSeq(dir, IsSequenceImage)
        bases == BasesOf(files, {})
    IN [i \in 1..Len(bases) |->
           [base_name |-> bases[i],
            sample_files |-> {f \in ToSet(files) : extract_base_name(f) = bases[i]}]]

\* The folders a batch is run on.
SampleListings ==
    {<<>>,
     <<<<"a", "_", "1">> \o ExtPng>>,
     <<<<"a", "_", "1">> \o ExtPng, <<"a", "_", "2">> \o ExtPng, <<"b", "_", "1">> \o ExtJpg>>,
     <<<<"a", "_", "1">> \o ExtPng, <<"c">> \o ExtBmp>>,
     <<<<"a", "_", "1">> \o ExtPng, <<"a", "_", "1">> \o ExtJpg>>}

BgListings ==
    {<<>>,
     <<<<"a">> \o ExtPng>>,
     <<<<"b">> \o ExtPng, <<"a">> \o ExtPng>>}

BatchMaxWorkers == 2

\* progress_callback: absent, returning True, or returning False.
Callbacks == {"none", "continue", "cancel"}

\* What process_image_pair can do with a pair of files: write the annotation
\* file, fail (an image that cannot be decoded, a failed write), or raise.
PairOutcomes == {"success", "failure", "exception"}

\* What process_single_image can do with a sample: write the annotation file,
\* find the sample undecodable, or run into an exception.
ImageOutcomes == {"success", "undecodable", "exception"}

\* Every sequence is given the whole worker budget.
SeqWorkers_AllWorkers(n_sequences, max_workers) ==
    max_workers

\* seq_workers, line 805
SeqWorkers(n_sequences, max_workers) ==
    LET inner == IF n_sequences < max_workers \div 2 THEN n_sequences ELSE max_workers \div 2
        share == max_workers \div inner
    IN IF share > 1 THEN share ELSE 1

\* max_workers of the executor that runs the sequences, line 811
SequencePoolSize(n_sequences, max_workers) ==
    IF n_sequences < max_workers \div 2 THEN n_sequences ELSE max_workers \div 2

InitBatchFields ==
    /\ b_tasks = <<>>
    /\ processed_count = 0
    /\ failed_count = 0
    /\ error_list = <<>>
    /\ processed_lock = 0
    /\ output_files = EmptyDict
    /\ b_decoded = {}
    /\ completed = 0
    /\ b_progress = <<>>
    /\ b_result = None

InitBatchIdle ==
    /\ b_args = [mode |-> "none", max_workers |-> 1, progress_callback |-> "none"]
    /\ sample_dir = <<>>
    /\ bg_dir = <<>>
    /\ b_pc = "idle"
    /\ InitBatchFields

InitBatch ==
    /\ b_args \in [mode : {"standard", "sequence"}, max_workers : 1..BatchMaxWorkers,
                   progress_callback : Callbacks]
    /\ fs_dirs \in {[d \in DOMAIN AllDirsPresent |-> IF d \in absent THEN "absent" ELSE "present"] :
                        absent \in {{}, {"bg_dir"}, {"sample_dir", "output_dir"}, {"output_dir"}}}
    /\ sample_dir \in IF Exists("sample_dir") THEN SampleListings ELSE {<<>>}
    /\ bg_dir \in IF Exists("bg_dir") THEN BgListings ELSE {<<>>}
    /\ b_pc = "call"
    /\ InitBatchFields

BatchTasksRunning == {i \in 1..Len(b_tasks) : b_tasks[i].st \in {"running", "locked"}}
BatchAllDone == \A i \in 1..Len(b_tasks) : b_tasks[i].st = "done"
BatchAllCollected(tasks) == \A i \in 1..Len(tasks) : tasks[i].collected

\* progress_callback(progress): the percentage is passed, False cancels.
CallProgress(done, total) ==
    IF b_args.progress_callback = "none" THEN b_progress
    ELSE Append(b_progress, PercentOf(done, total))

\* batch_process up to the submission of every sample, lines 465-531: the
\* two input directories are looked for, then the output directory is made.
BatchProcess ==
    /\ b_pc = "call" /\ b_args.mode = "standard"
    /\ LET sample_files == SelectSeq(sample_dir, IsBatchImage)
       IN IF ~Exists("bg_dir") \/ ~Exists("sample_dir")
          THEN /\ b_pc' = "returned"
               /\ b_result' = <<0, 0, <<"source directory does not exist">>>>
               /\ UNCHANGED <<b_tasks, fs_dirs>>
          ELSE IF sample_files = <<>>
          THEN /\ b_pc' = "returned"
               /\ b_result' = <<0, 0, <<"no image files">>>>
               /\ fs_dirs' = Makedirs("output_dir")
               /\ UNCHANGED b_tasks
          ELSE /\ b_pc' = "loop"
               /\ b_tasks' = [i \in 1..Len(sample_files) |->
                                 [sample_file |-> sample_files[i], st |-> "queued",
                                  success |-> FALSE, message |-> <<>>, collected |-> FALSE]]
               /\ fs_dirs' = Makedirs("output_dir")
               /\ UNCHANGED b_result
    /\ UNCHANGED <<b_args, processed_lock, output_files, b_decoded, sample_dir, bg_dir, processed_count, failed_count, error_list,
                   completed, b_progress>>
    /\ UNCHANGED <<varsNaming, varsVerifier, varsBox, varsModel>>

\* open(output_path, 'w') and the writing of the boxes, lines 354-355 and
\* 371-373 (651-652 and 723-726): the file is named after the sample file
\* without its extension and holds the boxes of that sample.
WriteAnnotation(files, sample_file) ==
    [name \in DOMAIN files \cup {SplitExtBase(sample_file)} |->
        IF name = SplitExtBase(sample_file) THEN sample_file ELSE files[name]]

\* A thread of the pool takes the next task of the queue.
BatchTaskCanStart(i, pool_size) ==
    /\ b_tasks[i].st = "queued"
    /\ \A j \in 1..(i - 1) : b_tasks[j].st # "queued"
    /\ Cardinality(BatchTasksRunning) < pool_size

ProcessSingleSampleStart(i) ==
    /\ b_pc \in {"loop", "shutdown"} /\ b_args.mode = "standard"
    /\ BatchTaskCanStart(i, b_args.max_workers)
    /\ b_tasks' = [b_tasks EXCEPT ![i].st = "running"]
    /\ UNCHANGED <<b_args, processed_lock, output_files, b_decoded, sample_dir, bg_dir, processed_count, failed_count, error_list,
                   completed, b_progress, b_pc, b_result>>
    /\ UNCHANGED othersBatch

\* process_single_sample enters one of its "with processed_lock" blocks,
\* lines 497, 505 and 517.
ProcessSingleSampleLock(i) ==
    /\ b_pc \in {"loop", "shutdown"} /\ b_args.mode = "standard"
    /\ b_tasks[i].st = "running"
    /\ processed_lock = 0
    /\ processed_lock' = i
    /\ b_tasks' = [b_tasks EXCEPT ![i].st = "locked"]
    /\ UNCHANGED <<b_args, output_files, b_decoded, sample_dir, bg_dir, processed_count,
                   failed_count, error_list, completed, b_progress, b_pc, b_result>>
    /\ UNCHANGED othersBatch

\* process_single_sample, lines 489-520: every path counts the sample once,
\* inside the with block, and leaves the block.
ProcessSingleSample(i) ==
    /\ b_pc \in {"loop", "shutdown"} /\ b_args.mode = "standard"
    /\ b_tasks[i].st = "locked" /\ processed_lock = i
    /\ processed_lock' = 0
    /\ LET sample_file == b_tasks[i].sample_file
           bg_file == find_matching_bg(sample_file, SelectSeq(bg_dir, IsBatchImage))
       IN IF bg_file = None
          THEN /\ failed_count' = failed_count + 1
               /\ b_tasks' = [b_tasks EXCEPT ![i].st = "done",
                                              ![i].message = <<"no background", sample_file>>]
               /\ UNCHANGED <<processed_count, error_list, output_files, b_decoded>>
          ELSE \E outcome \in PairOutcomes :
               /\ output_files' = IF outcome = "success"
                                  THEN WriteAnnotation(output_files, sample_file)
                                  ELSE output_files
               /\ b_decoded' = IF outcome = "success" THEN b_decoded \cup {sample_file}
                               ELSE b_decoded
               /\ processed_count' = processed_count + (IF outcome = "success" THEN 1 ELSE 0)
               /\ failed_count' = failed_count + (IF outcome = "success" THEN 0 ELSE 1)
               /\ error_list' = IF outcome = "failure"
                                THEN Append(error_list, <<"failed", sample_file>>)
                                ELSE error_list
               /\ b_tasks' = [b_tasks EXCEPT ![i].st = "done",
                                              ![i].success = (outcome = "success"),
                                              ![i].message = <<outcome, sample_file>>]
    /\ UNCHANGED <<b_args, sample_dir, bg_dir, completed, b_progress, b_pc, b_result>>
    /\ UNCHANGED othersBatch

\* The as_completed loop of batch_process, lines 534-550: break when the
\* callback returns False; the with block then waits for the pool.
BatchCollect(i) ==
    /\ b_pc = "loop" /\ b_args.mode = "standard"
    /\ b_tasks[i].st = "done" /\ ~b_tasks[i].collected
    /\ b_tasks' = [b_tasks EXCEPT ![i].collected = TRUE]
    /\ error_list' = IF b_tasks[i].success THEN error_list
                     ELSE Append(error_list, b_tasks[i].message)
    /\ completed' = completed + 1
    /\ b_progress' = CallProgress(completed + 1, Len(b_tasks))
    /\ b_pc' = IF b_args.progress_callback = "cancel" \/ BatchAllCollected(b_tasks')
               THEN "shutdown" ELSE "loop"
    /\ UNCHANGED <<b_args, processed_lock, output_files, b_decoded, sample_dir, bg_dir, processed_count, failed_count, b_result>>
    /\ UNCHANGED othersBatch

\* The end of the with block (shutdown(wait=True)) and the return.
BatchReturn ==
    /\ b_pc = "shutdown"
    /\ BatchAllDone
    /\ b_pc' = "returned"
    /\ b_result' = <<processed_count, failed_count, error_list>>
    /\ UNCHANGED <<b_args, processed_lock, output_files, b_decoded, sample_dir, bg_dir, b_tasks, processed_count, failed_count,
                   error_list, completed, b_progress>>
    /\ UNCHANGED othersBatch

\* batch_process_by_sequence up to the choice of the branch, lines 785-811:
\* the sequences run in a pool when there are several and max_workers > 1,
\* one after the other otherwise.
BatchProcessBySequence ==
    /\ b_pc = "call" /\ b_args.mode = "sequence"
    /\ LET sequences == get_sample_sequence(sample_dir)
           parallel == Len(sequences) > 1 /\ b_args.max_workers > 1
       IN IF ~Exists("bg_dir") \/ ~Exists("sample_dir")
          THEN /\ b_pc' = "returned"
               /\ b_result' = <<0, 0, <<"background or sample directory does not exist">>>>
               /\ UNCHANGED b_tasks
          ELSE IF sequences = <<>>
          THEN /\ b_pc' = "returned"
               /\ b_result' = <<0, 0, <<"no sample sequences">>>>
               /\ UNCHANGED b_tasks
          ELSE /\ b_pc' = IF parallel THEN "parallel" ELSE "sequential"
               /\ b_tasks' = [i \in 1..Len(sequences) |->
                                 [base_name |-> sequences[i].base_name,
                                  sample_files |-> sequences[i].sample_files,
                                  max_workers |-> IF parallel
                                                  THEN SeqWorkers(Len(sequences), b_args.max_workers)
                                                  ELSE b_args.max_workers,
                                  st |-> "queued", todo |-> sequences[i].sample_files,
                                  processed |-> 0, failed |-> 0, errors |-> <<>>,
                                  collected |-> FALSE]]
               /\ UNCHANGED b_result
    /\ UNCHANGED <<b_args, processed_lock, output_files, b_decoded, sample_dir, bg_dir, processed_count, failed_count, error_list,
                   completed, b_progress>>
    /\ UNCHANGED othersBatch

\* process_sample_sequence up to the loading of the background, lines
\* 603-633: without a background file, or with one that cannot be decoded,
\* it returns 0, 0 and one message.
ProcessSampleSequence(s) ==
    /\ \/ /\ b_pc = "parallel"
          /\ BatchTaskCanStart(s, SequencePoolSize(Len(b_tasks), b_args.max_workers))
       \/ /\ b_pc = "sequential"
          /\ b_tasks[s].st = "queued"
          /\ \A j \in 1..(s - 1) : b_tasks[j].collected
    /\ IF SelectSeq(bg_dir, IsSequenceImage) = <<>>
       THEN b_tasks' = [b_tasks EXCEPT ![s].st = "done",
                                       ![s].errors = <<<<"no background", b_tasks[s].base_name>>>>]
       ELSE \E decoded \in BOOLEAN :
               b_tasks' = IF decoded
                          THEN [b_tasks EXCEPT ![s].st = "running"]
                          ELSE [b_tasks EXCEPT ![s].st = "done",
                                               ![s].errors = <<<<"background undecodable",
                                                                 b_tasks[s].base_name>>>>]
    /\ UNCHANGED <<b_args, processed_lock, output_files, b_decoded, sample_dir, bg_dir, processed_count, failed_count, error_list,
                   completed, b_progress, b_pc, b_result>>
    /\ UNCHANGED othersBatch

\* process_single_image and the collection of its result, lines 644-763: a
\* sample that cannot be decoded returns False without touching a counter;
\* open(output_path, 'w') raises FileNotFoundError when the output directory
\* does not exist, which the except clause counts as a failure.
ProcessSingleImage(s, sample_file) ==
    /\ b_pc \in {"parallel", "sequential"}
    /\ b_tasks[s].st = "running"
    /\ sample_file \in b_tasks[s].todo
    /\ \E decoded \in ImageOutcomes :
          LET outcome == IF decoded = "success" /\ ~Exists("output_dir")
                         THEN "FileNotFoundError" ELSE decoded
          IN /\ b_tasks' = [b_tasks EXCEPT
                               ![s].todo = @ \ {sample_file},
                               ![s].processed = @ + (IF outcome = "success" THEN 1 ELSE 0),
                               ![s].failed = @ + (IF outcome \in {"exception", "FileNotFoundError"}
                                                  THEN 1 ELSE 0),
                               ![s].errors = IF outcome = "success" THEN @
                                             ELSE Append(@, <<outcome, sample_file>>)]
             /\ output_files' = IF outcome = "success"
                                THEN WriteAnnotation(output_files, sample_file)
                                ELSE output_files
             /\ b_decoded' = IF decoded = "success" THEN b_decoded \cup {sample_file}
                             ELSE b_decoded
    /\ UNCHANGED <<b_args, processed_lock, sample_dir, bg_dir, processed_count, failed_count,
                   error_list, completed, b_progress, b_pc, b_result>>
    /\ UNCHANGED othersBatch

\* return processed, failed, errors (line 765), every sample being over.
ProcessSampleSequenceReturn(s) ==
    /\ b_pc \in {"parallel", "sequential"}
    /\ b_tasks[s].st = "running"
    /\ b_tasks[s].todo = {}
    /\ b_tasks' = [b_tasks EXCEPT ![s].st = "done"]
    /\ UNCHANGED <<b_args, processed_lock, output_files, b_decoded, sample_dir, bg_dir, processed_count, failed_count, error_list,
                   completed, b_progress, b_pc, b_result>>
    /\ UNCHANGED othersBatch

\* The result of a sequence is added to the totals (lines 829-849 and
\* 867-874); what progress_callback returns is not looked at.
SequenceCollect(s) ==
    /\ b_pc \in {"parallel", "sequential"}
    /\ b_tasks[s].st = "done" /\ ~b_tasks[s].collected
    /\ b_tasks' = [b_tasks EXCEPT ![s].collected = TRUE]
    /\ processed_count' = processed_count + b_tasks[s].processed
    /\ failed_count' = failed_count + b_tasks[s].failed
    /\ error_list' = error_list \o b_tasks[s].errors
    /\ completed' = completed + 1
    /\ b_progress' = CallProgress(completed + 1, Len(b_tasks))
    /\ b_pc' = IF BatchAllCollected(b_tasks') THEN "shutdown" ELSE b_pc
    /\ UNCHANGED <<b_args, processed_lock, output_files, b_decoded, sample_dir, bg_dir, b_result>>
    /\ UNCHANGED othersBatch

NextBatch ==
    \/ BatchProcess
    \/ \E i \in 1..Len(b_tasks) : ProcessSingleSampleStart(i)
    \/ \E i \in 1..Len(b_tasks) : ProcessSingleSampleLock(i)
    \/ \E i \in 1..Len(b_tasks) : ProcessSingleSample(i)
    \/ \E i \in 1..Len(b_tasks) : BatchCollect(i)
    \/ BatchProcessBySequence
    \/ \E s \in 1..Len(b_tasks) : ProcessSampleSequence(s)
    \/ \E s \in 1..Len(b_tasks) : \E f \in ToSet(sample_dir) : ProcessSingleImage(s, f)
    \/ \E s \in 1..Len(b_tasks) : ProcessSampleSequenceReturn(s)
    \/ \E s \in 1..Len(b_tasks) : SequenceCollect(s)
    \/ BatchReturn

-----------------------------------------------------------------------------
(* Properties of the batch runs *)

\* The sample files of the run: what the mode's listing filter lets through.
BatchSampleFiles ==
    IF b_args.mode = "sequence" THEN SelectSeq(sample_dir, IsSequenceImage)
    ELSE SelectSeq(sample_dir, IsBatchImage)

\* C3: over more than one sample file, a batch whose progress callback
\* returns False at its first call returns with success count plus failure
\* count below the number of sample files, in standard and in sequence mode.
C3_CancelledBatchCountsFewer ==
    (/\ b_pc = "returned"
     /\ b_args.progress_callback = "cancel"
     /\ b_progress # <<>>
     /\ Len(BatchSampleFiles) > 1)
        => b_result[1] + b_result[2] < Len(BatchSampleFiles)

\* C6: a batch that is not cancelled counts every sample file exactly once:
\* success count plus failure count is the number of sample files, in
\* standard and in sequence mode, whatever fails.
C6_EverySampleCountedOnce ==
    (b_pc = "returned" /\ b_args.progress_callback # "cancel")
        => b_result[1] + b_result[2] = Len(BatchSampleFiles)

\* C17: every mutation of the state shared by the threads of batch_process
\* (the success counter, the failure counter and the error list) is made
\* while processed_lock is held, by a worker or by the collecting thread.
C17_MutationsUnderLock ==
    [][(/\ b_args.mode = "standard"
        /\ \/ processed_count' # processed_count
           \/ failed_count' # failed_count
           \/ error_list' # error_list) => processed_lock # 0]_vars

\* The error messages of the returned result that name a sample file.
MessagesAbout(sample_file) ==
    {k \in 1..Len(b_result[3]) : b_result[3][k][2] = sample_file}

\* C18: when batch_process returns after its progress callback asked for
\* cancellation, every dispatched sample has run to completion and is in the
\* returned result: it is counted as a success or as a failure and, when it
\* failed, the error list has a message about it.
C18_CancelledBatchReportsEveryUnit ==
    (/\ b_pc = "returned"
     /\ b_args.mode = "standard"
     /\ b_args.progress_callback = "cancel"
     /\ b_progress # <<>>)
        => /\ \A i \in 1..Len(b_tasks) : b_tasks[i].st = "done"
           /\ b_result[1] + b_result[2] = Len(b_tasks)
           /\ \A i \in 1..Len(b_tasks) :
                  ~b_tasks[i].success => MessagesAbout(b_tasks[i].sample_file) # {}

\* C24: in standard mode and in sequence mode alike, every sample whose
\* background and sample images decode is, when the batch returns, written
\* to <sample file name without extension>.txt in the output directory,
\* which has been created if it did not exist, and is counted as a success.
C24_DecodedSamplesWritten ==
    b_pc = "returned" =>
        /\ \A f \in b_decoded : SplitExtBase(f) \in DOMAIN output_files
        /\ b_decoded # {} => Exists("output_dir")
        /\ b_result[1] = Cardinality(b_decoded)

\* C27: distinct sample files of one batch run have distinct annotation
\* files, so that when the batch returns the annotation file of every
\* successful sample holds the boxes of that sample.
C27_AnnotationFilePerSample ==
    b_pc = "returned" =>
        /\ \A f, g \in b_decoded : f # g => SplitExtBase(f) # SplitExtBase(g)
        /\ \A f \in b_decoded :
               SplitExtBase(f) \in DOMAIN output_files => output_files[SplitExtBase(f)] = f

-----------------------------------------------------------------------------
(* BoundingBox, its IoU, and create_merged_box *)

\* The dataclass: label_id and four floats.
BoundingBox(label_id, x_center, y_center, width, height) ==
    [label_id |-> label_id, x_center |-> x_center, y_center |-> y_center,
     width |-> width, height |-> height]

FTwo == FFromInt(2)

\* compute_image_diff, lines 225-236: the box of a pixel rectangle.
NormalizedBox(rect, img_width, img_height, default_label) ==
    BoundingBox(default_label,
                FDiv(FAdd(FFromInt(rect.x), FDiv(FFromInt(rect.w), FTwo)), FFromInt(img_width)),
                FDiv(FAdd(FFromInt(rect.y), FDiv(FFromInt(rect.h), FTwo)), FFromInt(img_height)),
                FDiv(FFromInt(rect.w), FFromInt(img_width)),
                FDiv(FFromInt(rect.h), FFromInt(img_height)))

\* get_absolute_coords: (x1, y1, x2, y2), each an int(...) of a float.
get_absolute_coords(box, img_width, img_height) ==
    <<FTrunc(FMul(FSub(box.x_center, FDiv(box.width, FTwo)), FFromInt(img_width))),
      FTrunc(FMul(FSub(box.y_center, FDiv(box.height, FTwo)), FFromInt(img_height))),
      FTrunc(FMul(FAdd(box.x_center, FDiv(box.width, FTwo)), FFromInt(img_width))),
      FTrunc(FMul(FAdd(box.y_center, FDiv(box.height, FTwo)), FFromInt(img_height)))>>

\* intersection_area / union_area, line 67: ZeroDivisionError when the union
\* area is 0.0.
IouRatio(intersection_area, union_area) ==
    IF union_area.sgn = 0
    THEN [raised |-> "ZeroDivisionError", value |-> FZero]
    ELSE [raised |-> "no", value |-> FDiv(intersection_area, union_area)]

\* Lines 55-64 of iou, the edges of the intersection being known.
IouOfEdges(x_left, y_top, x_right, y_bottom, self_area, other_area) ==
    IF FLess(x_right, x_left) \/ FLess(y_bottom, y_top)
    THEN [raised |-> "no", value |-> FZero]
    ELSE IouRatio(FMul(FSub(x_right, x_left), FSub(y_bottom, y_top)),
                  FSub(FAdd(self_area, other_area),
                       FMul(FSub(x_right, x_left), FSub(y_bottom, y_top))))

\* BoundingBox.iou: 0.0 without overlap, else intersection / union.
iou(self, other) ==
    IouOfEdges(FMax(FSub(self.x_center, FDiv(self.width, FTwo)),
                    FSub(other.x_center, FDiv(other.width, FTwo))),
               FMax(FSub(self.y_center, FDiv(self.height, FTwo)),
                    FSub(other.y_center, FDiv(other.height, FTwo))),
               FMin(FAdd(self.x_center, FDiv(self.width, FTwo)),
                    FAdd(other.x_center, FDiv(other.width, FTwo))),
               FMin(FAdd(self.y_center, FDiv(self.height, FTwo)),
                    FAdd(other.y_center, FDiv(other.height, FTwo))),
               FMul(self.width, self.height),
               FMul(other.width, other.height))

\* min_x, min_y, max_x, max_y of create_merged_box, lines 315-318
CoverOf(all_coords) ==
    <<CHOOSE v \in {c[1] : c \in all_coords} : \A c \in all_coords : v <= c[1],
      CHOOSE v \in {c[2] : c \in all_coords} : \A c \in all_coords : v <= c[2],
      CHOOSE v \in {c[3] : c \in all_coords} : \A c \in all_coords : v >= c[3],
      CHOOSE v \in {c[4] : c \in all_coords} : \A c \in all_coords : v >= c[4]>>

\* Lines 321-333 of create_merged_box: the box of a pixel extent.
BoxOfExtent(label_id, extent, img_width, img_height) ==
    BoundingBox(label_id,
                FDiv(FAdd(FFromInt(extent[1]), FDiv(FFromInt(extent[3] - extent[1]), FTwo)),
                     FFromInt(img_width)),
                FDiv(FAdd(FFromInt(extent[2]), FDiv(FFromInt(extent[4] - extent[2]), FTwo)),
                     FFromInt(img_height)),
                FDiv(FFromInt(extent[3] - extent[1]), FFromInt(img_width)),
                FDiv(FFromInt(extent[4] - extent[2]), FFromInt(img_height)))

\* create_merged_box: the cover of the members' absolute coordinates,
\* normalized again; the label of the first member.
create_merged_box(boxes, img_width, img_height) ==
    BoxOfExtent(boxes[1].label_id,
                CoverOf({get_absolute_coords(boxes[i], img_width, img_height) :
                            i \in 1..Len(boxes)}),
                img_width, img_height)

\* Image sizes and pixel rectangles of the model: small images with every
\* rectangle up to MaxPixel wide in two rows (a rectangle of no width gives a
\* box of area 0, which the dataclass accepts), and the 100 x 100 example.
MaxPixel == 3

SmallImages == {<<3, 3>>, <<5, 5>>}

\* Width 0 is the box a caller constructs directly: the dataclass accepts
\* any floats.
SmallRects(img) ==
    {r \in [x : 0..(MaxPixel - 1), y : {0, 2}, w : 0..MaxPixel, h : {1}] :
        r.x + r.w <= img[1] /\ r.y + r.h <= img[2]}

ExampleRects ==
    <<[x |-> 10, y |-> 10, w |-> 40, h |-> 40], [x |-> 40, y |-> 40, w |-> 40, h |-> 40]>>

NotMade == [made |-> FALSE]

InitBoxIdle ==
    /\ bx_img = <<1, 1>>
    /\ bx_rects = <<>>
    /\ bx_boxes = <<>>
    /\ bx_iou = NotMade
    /\ bx_merged = NotMade

InitBox ==
    /\ \/ /\ bx_img \in SmallImages
          /\ bx_rects \in {<<a, b>> : a \in SmallRects(bx_img), b \in SmallRects(bx_img)}
       \/ /\ bx_img = <<100, 100>>
          /\ bx_rects = ExampleRects
    /\ bx_boxes = <<>>
    /\ bx_iou = NotMade
    /\ bx_merged = NotMade
    /\ fs_dirs = AllDirsPresent

\* The boxes of the two rectangles, as compute_image_diff makes them.
MakeBoxes ==
    /\ bx_rects # <<>> /\ bx_boxes = <<>>
    /\ bx_boxes' = [i \in 1..2 |-> NormalizedBox(bx_rects[i], bx_img[1], bx_img[2], 0)]
    /\ UNCHANGED <<bx_img, bx_rects, bx_iou, bx_merged>>
    /\ UNCHANGED othersBox

\* current_box.iou(boxes[j]), line 284
CallIou ==
    /\ bx_boxes # <<>> /\ bx_iou = NotMade
    /\ bx_iou' = iou(bx_boxes[1], bx_boxes[2])
    /\ UNCHANGED <<bx_img, bx_rects, bx_boxes, bx_merged>>
    /\ UNCHANGED othersBox

\* self.create_merged_box(merged_boxes, img_width, img_height), line 292
CallCreateMergedBox ==
    /\ bx_boxes # <<>> /\ bx_merged = NotMade
    /\ bx_merged' = create_merged_box(bx_boxes, bx_img[1], bx_img[2])
    /\ UNCHANGED <<bx_img, bx_rects, bx_boxes, bx_iou>>
    /\ UNCHANGED othersBox

NextBox == MakeBoxes \/ CallIou \/ CallCreateMergedBox

-----------------------------------------------------------------------------
(* Properties of the boxes *)

FOne == FFromInt(1)

FEqual(x, y) == FSub(x, y).sgn = 0

\* The pixel rectangles leave a gap on the x axis or on the y axis.
RectsDisjoint(a, b) ==
    \/ a.x + a.w < b.x \/ b.x + b.w < a.x
    \/ a.y + a.h < b.y \/ b.y + b.h < a.y

MemberExtents ==
    {get_absolute_coords(bx_boxes[i], bx_img[1], bx_img[2]) : i \in 1..Len(bx_boxes)}

\* C7: a.iou(b) returns a value and never raises; the value equals b.iou(a)
\* and lies between 0 and 1 inclusive; it is 0 when the rectangles are
\* disjoint on either axis, and a.iou(a) is 1 for a box of positive area.
C7_IouTotalSymmetricBounded ==
    bx_iou # NotMade =>
        /\ bx_iou.raised = "no"
        /\ iou(bx_boxes[2], bx_boxes[1]) = bx_iou
        /\ bx_iou.value.sgn >= 0
        /\ ~FLess(FOne, bx_iou.value)
        /\ RectsDisjoint(bx_rects[1], bx_rects[2]) => bx_iou.value.sgn = 0
        /\ (bx_boxes[1] = bx_boxes[2] /\ bx_rects[1].w > 0 /\ bx_rects[1].h > 0)
               => FEqual(bx_iou.value, FOne)

\* C8: the absolute pixel extent of the merged box is exactly the smallest
\* rectangle covering the members' absolute extents, (10,10,80,80) for the
\* two example rectangles in a 100x100 image, and its label_id is the one of
\* the first member.
C8_MergedBoxIsExactCover ==
    bx_merged # NotMade =>
        /\ get_absolute_coords(bx_merged, bx_img[1], bx_img[2]) = CoverOf(MemberExtents)
        /\ bx_rects = ExampleRects
               => get_absolute_coords(bx_merged, bx_img[1], bx_img[2]) = <<10, 10, 80, 80>>
        /\ bx_merged.label_id = bx_boxes[1].label_id

-----------------------------------------------------------------------------
(* DiffLabelerModel: one object, its configuration and its calls *)

\* The fields that save_config writes and the settings panel edits.
ConfigFields ==
    {"bg_dir", "sample_dir", "output_dir", "min_diff_area", "diff_threshold",
     "default_label", "bbox_padding", "min_merge_iou"}

\* __init__, lines 73-83, and the methods of the class, which hasattr and
\* getattr find as well (two of them stand for all).
NewModel ==
    [a \in ConfigFields \cup {"config_file", "set_config", "batch_process"} |->
        CASE a \in {"bg_dir", "sample_dir", "output_dir"} -> ""
          [] a = "min_diff_area" -> 100
          [] a = "diff_threshold" -> 30
          [] a = "default_label" -> 0
          [] a = "bbox_padding" -> 0
          [] a = "min_merge_iou" -> FDiv(FFromInt(3), FFromInt(10))
          [] a = "config_file" -> "config\\DI_config.json"
          [] OTHER -> "bound method"]

\* A value a caller may pass for a key: of the type of the field for the
\* attributes, any text for a method name and for a key that is no attribute.
PassedValues(key) ==
    CASE key \in {"bg_dir", "sample_dir", "output_dir"} -> {"dir"}
      [] key = "min_diff_area" -> {0}
      [] key = "diff_threshold" -> {0, 254}
      [] key = "default_label" -> {1}
      [] key = "bbox_padding" -> {1, 3}
      [] key = "min_merge_iou" -> {FZero, FDiv(FFromInt(1), FTwo)}
      [] OTHER -> {"text"}

\* The dictionaries handed to set_config: empty, one key, or a
\* configuration field together with the key verbose, which is no attribute
\* of the object.
ConfigDicts ==
    LET keys == DOMAIN NewModel \cup {"verbose"}
        One(k) == {k :> v : v \in PassedValues(k)}
    IN {EmptyDict}
       \cup UNION {One(k) : k \in keys}
       \cup UNION {{c @@ d : c \in One(k), d \in One("verbose")} : k \in ConfigFields}

InitModelIdle ==
    /\ dl_attrs = EmptyDict
    /\ dl_before = EmptyDict
    /\ dl_call = [name |-> "none"]
    /\ dl_out = None
    /\ dl_pc = "idle"

\* DiffLabelerModel()
InitModel ==
    /\ dl_attrs = NewModel
    /\ dl_before = NewModel
    /\ dl_call = [name |-> "__init__"]
    /\ dl_out = None
    /\ dl_pc = "new"
    /\ fs_dirs = AllDirsPresent

\* set_config, lines 85-91: setattr for every key that hasattr finds.
SetConfig(config) ==
    /\ dl_pc = "new"
    /\ dl_attrs' = [a \in DOMAIN dl_attrs |->
                       IF a \in DOMAIN config THEN config[a] ELSE dl_attrs[a]]
    /\ dl_before' = dl_attrs
    /\ dl_call' = [name |-> "set_config", config |-> config]
    /\ dl_out' = None
    /\ dl_pc' = "configured"
    /\ UNCHANGED othersModel

\* The mask value with a threshold test that lets equal values pass.
DiffMaskPixel_Inclusive(bg_pixel, sample_pixel, diff_threshold) ==
    IF \E c \in 1..3 : bg_pixel[c] - sample_pixel[c] >= diff_threshold
                        \/ sample_pixel[c] - bg_pixel[c] >= diff_threshold
    THEN 255 ELSE 0

\* compute_image_diff, lines 180-192 (process_single_image, 663-675), for
\* one pixel of three 8-bit channels: cv2.absdiff, cv2.split, cv2.threshold
\* with THRESH_BINARY on each channel, and cv2.bitwise_or of the three masks.
DiffMaskPixel(bg_pixel, sample_pixel, diff_threshold) ==
    LET absdiff(a, b) == IF a >= b THEN a - b ELSE b - a
        threshold(src, thresh, maxval) == IF src > thresh THEN maxval ELSE 0
        bit(v, i) == (v \div 2^i) % 2
        bitwise_or(a, b) ==
            LET either(i) == IF bit(a, i) = 1 \/ bit(b, i) = 1 THEN 2^i ELSE 0
            IN either(0) + either(1) + either(2) + either(3)
               + either(4) + either(5) + either(6) + either(7)
        b_mask == threshold(absdiff(bg_pixel[1], sample_pixel[1]), diff_threshold, 255)
        g_mask == threshold(absdiff(bg_pixel[2], sample_pixel[2]), diff_threshold, 255)
        r_mask == threshold(absdiff(bg_pixel[3], sample_pixel[3]), diff_threshold, 255)
    IN bitwise_or(bitwise_or(b_mask, g_mask), r_mask)

\* The channel values of the pixels the mask is computed for.
PixelValues == {0, 1, 30, 31}
BgPixels == {<<0, 0, 0>>, <<255, 255, 255>>, <<1, 31, 30>>}

\* The mask of compute_image_diff at one pixel, before the morphology.  The
\* call reads the configuration and leaves it alone, so one call per object
\* is followed.
ComputeDiffMask(bg_pixel, sample_pixel) ==
    /\ dl_pc \in {"new", "configured"}
    /\ dl_call' = [name |-> "diff_mask", bg_pixel |-> bg_pixel, sample_pixel |-> sample_pixel]
    /\ dl_out' = DiffMaskPixel(bg_pixel, sample_pixel, dl_attrs["diff_threshold"])
    /\ dl_before' = dl_attrs
    /\ dl_pc' = "called"
    /\ UNCHANGED dl_attrs
    /\ UNCHANGED othersModel

\* The padding without the clipping to the image.
PaddedRect_Unclipped(rect, img_width, img_height, padding) ==
    [x |-> rect.x - padding, y |-> rect.y - padding,
     w |-> rect.w + 2 * padding, h |-> rect.h + 2 * padding]

\* The padding of the bounding rectangle of a contour, lines 216-222
\* (process_single_image, 695-700).
PaddedRect(rect, img_width, img_height, padding) ==
    LET max(a, b) == IF a >= b THEN a ELSE b
        min(a, b) == IF a <= b THEN a ELSE b
        x == max(0, rect.x - padding)
        y == max(0, rect.y - padding)
        w == min(img_width - x, rect.w + 2 * padding)
        h == min(img_height - y, rect.h + 2 * padding)
    IN [x |-> x, y |-> y, w |-> w, h |-> h]

\* The size of the image and what cv2.boundingRect gives for its contours.
PadImage == [width |-> 10, height |-> 8]
ContourRects ==
    {r \in [x : {0, 1, 5}, y : {0, 2, 5}, w : {2, 4}, h : {2}] :
        r.x + r.w <= PadImage.width /\ r.y + r.h <= PadImage.height}

\* The rectangle compute_image_diff goes on with for one kept contour.
PadContourRect(rect) ==
    /\ dl_pc \in {"new", "configured"}
    /\ dl_call' = [name |-> "pad", rect |-> rect]
    /\ dl_out' = PaddedRect(rect, PadImage.width, PadImage.height, dl_attrs["bbox_padding"])
    /\ dl_before' = dl_attrs
    /\ dl_pc' = "called"
    /\ UNCHANGED dl_attrs
    /\ UNCHANGED othersModel

\* boxes.sort(key=lambda box: box.get_area(), reverse=True), line 267: the
\* sort is stable, boxes of equal area keep their order.
SortedByArea(boxes) ==
    LET get_area(box) == FMul(box.width, box.height)
        place(area, i) ==
            1 + Cardinality({j \in 1..Len(boxes) : FLess(area[i], area[j])})
              + Cardinality({j \in 1..(i - 1) : FEqual(area[j], area[i])})
        sorted(area) ==
            [k \in 1..Len(boxes) |-> boxes[CHOOSE i \in 1..Len(boxes) : place(area, i) = k]]
    IN CHOOSE list \in {sorted(area) :
                           area \in {[i \in 1..Len(boxes) |-> get_area(boxes[i])]}} : TRUE

\* The inner loop of merge_overlapping_boxes, lines 279-287: the positions
\* that join the box at position i.
MergedWith(boxes, i, merged_indices, min_merge_iou) ==
    {j \in (i + 1)..Len(boxes) :
        j \notin merged_indices /\ FLess(min_merge_iou, iou(boxes[i], boxes[j]).value)}

\* Whether a call of iou in the inner loop raises.
InnerLoopRaises(boxes, i, merged_indices) ==
    \E j \in (i + 1)..Len(boxes) :
        j \notin merged_indices /\ iou(boxes[i], boxes[j]).raised # "no"

\* Lines 289-295: what is appended to result for the box at position i and
\* the positions that joined it (kept with the box for the properties).
ResultEntry(boxes, i, joined, img_width, img_height) ==
    [members |-> {i} \cup joined,
     box |-> IF joined # {}
             THEN create_merged_box([k \in 1..(1 + Cardinality(joined)) |->
                                        IF k = 1 THEN boxes[i]
                                        ELSE boxes[CHOOSE j \in joined :
                                                 Cardinality({m \in joined : m < j}) = k - 2]],
                                    img_width, img_height)
             ELSE boxes[i]]

\* The outer loop of merge_overlapping_boxes, lines 272-295, from position i.
RECURSIVE MergeLoop(_, _, _, _, _, _, _)
MergeLoop(boxes, i, merged_indices, result, img_width, img_height, min_merge_iou) ==
    IF i > Len(boxes) THEN [raised |-> "no", boxes |-> boxes, result |-> result]
    ELSE IF i \in merged_indices
    THEN MergeLoop(boxes, i + 1, merged_indices, result, img_width, img_height, min_merge_iou)
    ELSE IF InnerLoopRaises(boxes, i, merged_indices)
    THEN [raised |-> "ZeroDivisionError", boxes |-> boxes, result |-> <<>>]
    ELSE CHOOSE out \in
             {MergeLoop(boxes, i + 1, merged_indices \cup joined,
                        Append(result, ResultEntry(boxes, i, joined, img_width, img_height)),
                        img_width, img_height, min_merge_iou) :
                 joined \in {MergedWith(boxes, i, merged_indices, min_merge_iou)}} : TRUE

\* merge_overlapping_boxes, lines 251-297; boxes is the list after the call
\* (it is sorted in place).
merge_overlapping_boxes(boxes, img_width, img_height, min_merge_iou) ==
    IF boxes = <<>> THEN [raised |-> "no", boxes |-> boxes, result |-> <<>>]
    ELSE CHOOSE out \in
             {MergeLoop(sorted, 1, {}, <<>>, img_width, img_height, min_merge_iou) :
                 sorted \in {SortedByArea(boxes)}} : TRUE

\* The image and the contour rectangles whose boxes are merged, three at a
\* time: two of equal area that share half of their union, one that
\* contains the first, and one that is apart; and a large one with two
\* small ones inside it that share three fifths of their union.
MergeImage == [width |-> 5, height |-> 5]
MergeRects ==
    LET a == [x |-> 0, y |-> 0, w |-> 1, h |-> 3]
        b == [x |-> 0, y |-> 1, w |-> 1, h |-> 3]
        c == [x |-> 0, y |-> 0, w |-> 2, h |-> 3]
        d == [x |-> 3, y |-> 3, w |-> 2, h |-> 2]
        s == [x |-> 0, y |-> 0, w |-> 3, h |-> 5]
        t == [x |-> 0, y |-> 0, w |-> 1, h |-> 4]
        u == [x |-> 0, y |-> 1, w |-> 1, h |-> 4]
    IN {<<a, b, d>>, <<b, a, d>>, <<a, b, c>>, <<d, d, d>>,
        <<a, d, c>>, <<c, b, a>>, <<d, a, a>>, <<a, c, d>>, <<s, t, u>>}

\* self.merge_overlapping_boxes(bounding_boxes, img_width, img_height) on the
\* boxes of three contours, line 244.
MergeOverlappingBoxes(rects) ==
    /\ dl_pc \in {"new", "configured"}
    /\ dl_call' = [name |-> "merge_overlapping_boxes", rects |-> rects]
    /\ \E boxes \in {<<NormalizedBox(rects[1], MergeImage.width, MergeImage.height,
                                      dl_attrs["default_label"]),
                        NormalizedBox(rects[2], MergeImage.width, MergeImage.height,
                                      dl_attrs["default_label"]),
                        NormalizedBox(rects[3], MergeImage.width, MergeImage.height,
                                      dl_attrs["default_label"])>>} :
           dl_out' = merge_overlapping_boxes(boxes, MergeImage.width, MergeImage.height,
                                             dl_attrs["min_merge_iou"])
    /\ dl_before' = dl_attrs
    /\ dl_pc' = "called"
    /\ UNCHANGED dl_attrs
    /\ UNCHANGED othersModel

\* The sample names and the background lists find_matching_bg is called
\* with: up to three backgrounds of a directory, in any listing order.
MatchSamples ==
    {<<"a", "b", "_", "1">> \o ExtPng, <<"a", "_", "1">> \o ExtPng,
     <<"b", "_", "1">> \o ExtJpg, <<"c", "_", "1">> \o ExtPng}
MatchBackgrounds ==
    LET names == {<<"a">> \o ExtPng, <<"a", "b">> \o ExtPng, <<"a", "b", "c">> \o ExtPng,
                  <<"d">> \o ExtJpg}
    IN {<<>>}
       \cup {<<bg1>> : bg1 \in names}
       \cup {bgs \in names \X names : bgs[1] # bgs[2]}
       \cup {bgs \in names \X names \X names :
                 bgs[1] # bgs[2] /\ bgs[1] # bgs[3] /\ bgs[2] # bgs[3]}

\* self.find_matching_bg(sample_file, bg_files), line 493
FindMatchingBg(sample_filename, bg_files) ==
    /\ dl_pc \in {"new", "configured"}
    /\ dl_call' = [name |-> "find_matching_bg", sample_filename |-> sample_filename,
                   bg_files |-> bg_files]
    /\ dl_out' = [bg_file |-> find_matching_bg(sample_filename, bg_files)]
    /\ dl_before' = dl_attrs
    /\ dl_pc' = "called"
    /\ UNCHANGED dl_attrs
    /\ UNCHANGED othersModel

\* The largest number of sample files of a batch.
MaxTotalFiles == 50

\* The progress report of the as_completed loop of batch_process, lines
\* 545-547, for the completed-th of total_files units:
\* progress = int(completed / total_files * 100); progress_callback(progress)
\* The report reads no attribute of the model: it is taken on the model as
\* constructed.
BatchProgress(n_completed, n_total) ==
    /\ dl_pc = "new"
    /\ dl_call' = [name |-> "progress_callback", completed |-> n_completed,
                   total_files |-> n_total]
    /\ dl_out' = [progress |-> PercentOf(n_completed, n_total)]
    /\ dl_before' = dl_attrs
    /\ dl_pc' = "called"
    /\ UNCHANGED dl_attrs
    /\ UNCHANGED othersModel

\* The largest number of sequences and the largest worker budget.
MaxSequences == 6
MaxBudget == 9

\* The sizing of the two pools of batch_process_by_sequence, lines 803-811,
\* in the branch len(sequences) > 1 and max_workers > 1.  It reads no
\* attribute of the model: it is taken on the model as constructed.
SequencePools(n_sequences, max_workers) ==
    /\ dl_pc = "new"
    /\ n_sequences > 1 /\ max_workers > 1
    /\ dl_call' = [name |-> "batch_process_by_sequence", n_sequences |-> n_sequences,
                   max_workers |-> max_workers]
    /\ dl_out' = [seq_workers |-> SeqWorkers(n_sequences, max_workers),
                  pool |-> SequencePoolSize(n_sequences, max_workers)]
    /\ dl_before' = dl_attrs
    /\ dl_pc' = "called"
    /\ UNCHANGED dl_attrs
    /\ UNCHANGED othersModel

NextModel ==
    \/ \E n_sequences \in 2..MaxSequences :
           \E max_workers \in 2..MaxBudget : SequencePools(n_sequences, max_workers)
    \/ \E n_total \in 1..MaxTotalFiles :
           \E n_completed \in 1..n_total : BatchProgress(n_completed, n_total)
    \/ \E sample_filename \in MatchSamples :
           \E bg_files \in MatchBackgrounds : FindMatchingBg(sample_filename, bg_files)
    \/ \E rects \in MergeRects : MergeOverlappingBoxes(rects)
    \/ \E config \in ConfigDicts : SetConfig(config)
    \/ \E bg_pixel \in BgPixels :
           \E sample_pixel \in PixelValues \X PixelValues \X PixelValues :
               ComputeDiffMask(bg_pixel, sample_pixel)
    \/ \E rect \in ContourRects : PadContourRect(rect)

\* The largest of the three channel absolute differences of the last call.
LargestChannelDifference ==
    LET d(c) == IF dl_call.bg_pixel[c] >= dl_call.sample_pixel[c]
                THEN dl_call.bg_pixel[c] - dl_call.sample_pixel[c]
                ELSE dl_call.sample_pixel[c] - dl_call.bg_pixel[c]
    IN CHOOSE m \in {d(1), d(2), d(3)} : \A c \in 1..3 : d(c) <= m

\* C14: a pixel is set (255) in the difference mask exactly when one of its
\* three channel differences is strictly greater than diff_threshold, so
\* not when the largest one equals diff_threshold and always when it is
\* diff_threshold + 1; otherwise the pixel is 0.
C14_MaskSetIffAboveThreshold ==
    dl_call.name = "diff_mask" =>
        /\ dl_out \in {0, 255}
        /\ (dl_out = 255) <=> (LargestChannelDifference > dl_attrs["diff_threshold"])

\* Both boundary cases with the default threshold 30: a largest difference
\* of 30 that leaves the pixel clear is covered by the formula; here the
\* largest difference is 31 and the pixel is set.
C14_JustAboveThresholdIsSet ==
    /\ dl_call.name = "diff_mask"
    /\ dl_attrs["diff_threshold"] = 30
    /\ LargestChannelDifference = 31
    /\ dl_out = 255


\* C15: set_config changes only the configuration fields that its argument
\* names: every other attribute, and every method, is afterwards what it was
\* before, and no attribute appears or disappears.
C15_SetConfigFrame ==
    dl_call.name = "set_config" =>
        /\ DOMAIN dl_attrs = DOMAIN dl_before
        /\ \A a \in DOMAIN dl_before :
               (a \notin ConfigFields \/ a \notin DOMAIN dl_call.config)
                   => dl_attrs[a] = dl_before[a]

\* C19: the rectangle of a kept contour (x, y, w, h), in an image W by H and
\* with a padding p >= 0, goes on as the original grown by p on each side
\* and clipped to the image: left max(0, x - p), top max(0, y - p), right
\* min(W, x + w + p), bottom min(H, y + h + p).
C19_PaddedRectIsGrownAndClipped ==
    (dl_call.name = "pad" /\ dl_attrs["bbox_padding"] >= 0) =>
        LET p == dl_attrs["bbox_padding"]
            r == dl_call.rect
            Least(a, b) == IF a <= b THEN a ELSE b
            Most(a, b) == IF a >= b THEN a ELSE b
        IN /\ dl_out.x = Most(0, r.x - p)
           /\ dl_out.y = Most(0, r.y - p)
           /\ dl_out.x + dl_out.w = Least(PadImage.width, r.x + r.w + p)
           /\ dl_out.y + dl_out.h = Least(PadImage.height, r.y + r.h + p)

\* The pixel rectangles in descending order of area, rectangles of equal area
\* in their order of arrival.
ByDescendingArea(rects) ==
    LET place(i) ==
            1 + Cardinality({j \in 1..Len(rects) :
                                rects[j].w * rects[j].h > rects[i].w * rects[i].h})
              + Cardinality({j \in 1..(i - 1) :
                                rects[j].w * rects[j].h = rects[i].w * rects[i].h})
    IN [k \in 1..Len(rects) |-> rects[CHOOSE i \in 1..Len(rects) : place(i) = k]]

\* Whether the intersection over union of two pixel rectangles is strictly
\* greater than the threshold, in exact arithmetic.  The thresholds of the
\* model are 0, 1/2 and the float 0.3, which lies just below 3/10: a ratio
\* of small integers is greater than it exactly when it is at least 3/10.
IoUExceeds(r, q, min_merge_iou) ==
    LET Least(a, b) == IF a <= b THEN a ELSE b
        Most(a, b) == IF a >= b THEN a ELSE b
        across == Most(0, Least(r.x + r.w, q.x + q.w) - Most(r.x, q.x))
        down == Most(0, Least(r.y + r.h, q.y + q.h) - Most(r.y, q.y))
        inter == across * down
        union == r.w * r.h + q.w * q.h - inter
    IN CASE min_merge_iou = FZero -> inter > 0
         [] min_merge_iou = FDiv(FOne, FTwo) -> 2 * inter > union
         [] OTHER -> 10 * inter >= 3 * union

\* The groups of positions of the ordered rectangles, from position i on:
\* each position not yet in a group is a seed and takes the later positions
\* not yet in a group whose IoU with it exceeds the threshold.
RECURSIVE GroupsFrom(_, _, _, _)
GroupsFrom(rects, i, grouped, min_merge_iou) ==
    IF i > Len(rects) THEN <<>>
    ELSE IF i \in grouped THEN GroupsFrom(rects, i + 1, grouped, min_merge_iou)
    ELSE LET group == {i} \cup {j \in (i + 1)..Len(rects) :
                                   j \notin grouped /\ IoUExceeds(rects[i], rects[j], min_merge_iou)}
         IN <<group>> \o GroupsFrom(rects, i + 1, grouped \cup group, min_merge_iou)

\* C20: merge_overlapping_boxes orders the boxes by descending area, boxes
\* of equal area in their order of arrival, takes each box not yet in a group
\* as a seed and groups with it exactly the later boxes not yet in a group
\* whose IoU with the seed is strictly greater than min_merge_iou; every
\* box is in exactly one group, a group of one is output unchanged, a larger
\* group as one merged box, one box per group in the order of the seeds.
C20_MergeGroupsBySeedAndIoU ==
    dl_call.name = "merge_overlapping_boxes" =>
        LET ordered == ByDescendingArea(dl_call.rects)
            groups == GroupsFrom(ordered, 1, {}, dl_attrs["min_merge_iou"])
            Members(k) == dl_out.result[k].members
            Seed(k) == CHOOSE i \in Members(k) : \A j \in Members(k) : i <= j
            InOrder(k) ==
                [n \in 1..Cardinality(Members(k)) |->
                    dl_out.boxes[CHOOSE j \in Members(k) :
                                     Cardinality({m \in Members(k) : m < j}) = n - 1]]
        IN /\ dl_out.raised = "no"
           /\ dl_out.boxes =
                  [k \in 1..Len(ordered) |->
                      NormalizedBox(ordered[k], MergeImage.width, MergeImage.height,
                                    dl_attrs["default_label"])]
           /\ [k \in 1..Len(dl_out.result) |-> Members(k)] = groups
           /\ \A i \in 1..Len(ordered) :
                  Cardinality({k \in 1..Len(dl_out.result) : i \in Members(k)}) = 1
           /\ \A k \in 1..Len(dl_out.result) :
                  dl_out.result[k].box =
                      IF Cardinality(Members(k)) = 1 THEN dl_out.boxes[Seed(k)]
                      ELSE create_merged_box(InOrder(k), MergeImage.width, MergeImage.height)

\* C22: find_matching_bg returns a background whose base name equals the
\* sample's when there is one, wherever it is in the list; otherwise one
\* whose base name is contained in the sample's when there is one; otherwise
\* one whose base name contains the sample's; and None only when no
\* background is in any of the three relations.  Within one tier it is the
\* first of the list.
C22_BackgroundByTier ==
    dl_call.name = "find_matching_bg" =>
        LET sample == extract_base_name(dl_call.sample_filename)
            bg == dl_call.bg_files
            Base(i) == extract_base_name(bg[i])
            Equal == {i \in 1..Len(bg) : Base(i) = sample}
            Inside == {i \in 1..Len(bg) : Contains(Base(i), sample)}
            Around == {i \in 1..Len(bg) : Contains(sample, Base(i))}
            Tier == IF Equal # {} THEN Equal ELSE IF Inside # {} THEN Inside ELSE Around
        IN IF Tier = {} THEN dl_out.bg_file = None
           ELSE /\ dl_out.bg_file # None
                /\ \E i \in Tier : /\ dl_out.bg_file = bg[i]
                                    /\ \A j \in Tier : i <= j

\* The sample ab_1.png finds ab.png at the end of a list that starts with a
\* background containing its name and one contained in it.
C22_ExactMatchFoundLast ==
    /\ dl_call.name = "find_matching_bg"
    /\ dl_call.sample_filename = <<"a", "b", "_", "1">> \o ExtPng
    /\ dl_call.bg_files = <<<<"a", "b", "c">> \o ExtPng, <<"a">> \o ExtPng, <<"a", "b">> \o ExtPng>>
    /\ dl_out.bg_file = <<"a", "b">> \o ExtPng

\* C29: the boxes merge_overlapping_boxes returns are a fixed point of the
\* merge: no two of them have an IoU greater than min_merge_iou, and
\* merge_overlapping_boxes returns the same boxes when it is given them.
C29_MergeOutputIsFixedPoint ==
    (dl_call.name = "merge_overlapping_boxes" /\ dl_out.raised = "no") =>
        LET out == [k \in 1..Len(dl_out.result) |-> dl_out.result[k].box]
            again == merge_overlapping_boxes(out, MergeImage.width, MergeImage.height,
                                             dl_attrs["min_merge_iou"])
        IN /\ \A i, j \in 1..Len(out) :
                  i < j => ~FLess(dl_attrs["min_merge_iou"], iou(out[i], out[j]).value)
           /\ again.raised = "no"
           /\ [k \in 1..Len(again.result) |-> again.result[k].box] = out

\* C25: the progress callback of batch_process is invoked after each
\* completed unit with floor(completed / total * 100), so the value is in
\* 0..100, is not below the value reported for the unit before, and is 100
\* for the last unit.
C25_ProgressIsFloorOfPercentage ==
    dl_call.name = "progress_callback" =>
        LET done == dl_call.completed
            total == dl_call.total_files
        IN /\ dl_out.progress = (done * 100) \div total
           /\ dl_out.progress \in 0..100
           /\ done = total => dl_out.progress = 100
           /\ done > 1 => PercentOf(done - 1, total) <= dl_out.progress

\* C26: with more than one sequence and max_workers > 1, the number of
\* sequences processed at a time and the worker count of each sequence are
\* both at least 1 and their product is at most max_workers.
C26_PoolsWithinBudget ==
    dl_call.name = "batch_process_by_sequence" =>
        /\ dl_out.pool >= 1
        /\ dl_out.seq_workers >= 1
        /\ dl_out.pool * dl_out.seq_workers <= dl_call.max_workers

\* Three sequences on a budget of five workers: two sequences at a time with
\* two workers each.
C26_TwoSequencesAtATime ==
    /\ dl_call.name = "batch_process_by_sequence"
    /\ dl_call.n_sequences = 3 /\ dl_call.max_workers = 5
    /\ dl_out = [seq_workers |-> 2, pool |-> 2]

\* A box whose four geometric fields are in [0, 1], of positive width and
\* height, and whose extent is inside the image.
BoxInsideImage(box) ==
    LET InUnit(v) == ~FLess(v, FZero) /\ ~FLess(FOne, v)
        Inside(center, size) ==
            /\ ~FLess(FSub(center, FDiv(size, FTwo)), FZero)
            /\ ~FLess(FOne, FAdd(center, FDiv(size, FTwo)))
    IN /\ InUnit(box.x_center) /\ InUnit(box.y_center)
       /\ InUnit(box.width) /\ InUnit(box.height)
       /\ FLess(FZero, box.width) /\ FLess(FZero, box.height)
       /\ Inside(box.x_center, box.width)
       /\ Inside(box.y_center, box.height)

\* C21: every box the diff computation makes, before merging (the box of a
\* padded contour rectangle) and after merging, has its four geometric
\* fields in [0, 1], a positive width and height, and an extent inside the
\* image.
C21_BoxesInsideImage ==
    /\ (dl_call.name = "pad" /\ dl_attrs["bbox_padding"] >= 0) =>
           BoxInsideImage(NormalizedBox(dl_out, PadImage.width, PadImage.height,
                                        dl_attrs["default_label"]))
    /\ (dl_call.name = "merge_overlapping_boxes" /\ dl_out.raised = "no") =>
           /\ \A k \in 1..Len(dl_out.boxes) : BoxInsideImage(dl_out.boxes[k])
           /\ \A k \in 1..Len(dl_out.result) : BoxInsideImage(dl_out.result[k].box)

\* A contour rectangle at the top of the image whose padding of 3 had to be
\* clipped at the top and at the right edge.
C21_ClippedBoxMade ==
    /\ dl_call.name = "pad"
    /\ dl_attrs["bbox_padding"] = 3
    /\ dl_call.rect.x = 5 /\ dl_call.rect.w = 4 /\ dl_call.rect.y = 0
    /\ dl_out.x + dl_out.w = PadImage.width

-----------------------------------------------------------------------------
(* Specifications *)

\* Each specification starts one part of the program and leaves the state of
\* the other parts at rest.
InitSpecNaming ==
    InitNaming /\ InitVerifierIdle /\ InitBatchIdle /\ InitBoxIdle /\ InitModelIdle

InitSpecVerifier ==
    InitVerifier /\ InitNamingIdle /\ InitBatchIdle /\ InitBoxIdle /\ InitModelIdle

InitSpecBatch ==
    InitBatch /\ InitNamingIdle /\ InitVerifierIdle /\ InitBoxIdle /\ InitModelIdle

InitSpecBox ==
    InitBox /\ InitNamingIdle /\ InitVerifierIdle /\ InitBatchIdle /\ InitModelIdle

InitSpecModel ==
    InitModel /\ InitNamingIdle /\ InitVerifierIdle /\ InitBatchIdle /\ InitBoxIdle

SpecNaming == InitSpecNaming /\ [][NextNaming]_vars

SpecVerifier == InitSpecVerifier /\ [][NextVerifier]_vars

SpecBatch == InitSpecBatch /\ [][NextBatch]_vars

SpecBox == InitSpecBox /\ [][NextBox]_vars

SpecModel == InitSpecModel /\ [][NextModel]_vars

=============================================================================
